---- MODULE Spec2Model ----
(***************************************************************************)
(* s-rack: modular synthesizer.  Model of the connection graph, the        *)
(* execution planner (synth.rs), the workspace operations and patch codec  *)
(* (ui.rs) and the per-module locking of the audio and control threads.    *)
(***************************************************************************)
EXTENDS Integers, Sequences, FiniteSets, TLC

VARIABLES
    kind,      \* handle -> module kind ("Free" when the Arc is not allocated)
    id,        \* handle -> SynthModule id (uuid string), 0 when free
    inputs,    \* handle -> input slots, slot index 0..n-1 -> None | <<src, port>>
    modules,   \* SynthModuleWorkspaceImpl.modules
    plan,      \* SynthModuleWorkspaceImpl.plan
    output,    \* SynthModuleWorkspaceImpl.output
    pst,       \* local state of plan_execution while its loop runs
    ws,        \* record of the last completed workspace operation
    locks,     \* handle -> state of the module's RwLock
    audio,     \* audio thread: position inside execute
    ui,        \* control thread: position inside SynthModuleWorkspace::ui
    call,      \* last call made on a module through the SynthModule trait
    hist,      \* the last set_input / disconnect_input calls, oldest first
    td,        \* a TransitionDetector with the samples fed to it and its answers
    smp,       \* a SampleModule, its WaveBox and the thread loading a file into it
    sequencer, \* a GridSequencerModule with the edges seen on its inputs
    bufs,      \* module id -> the module's AudioBuffers, one block each
    vca,       \* a VCAModule with the blocks behind its two inputs
    osc,       \* an OscillatorModule with the count of samples it has computed
    moog,      \* an InternalMoogFilterState with the samples fed to it
    abuf,      \* the storage behind a module's output AudioBuffer and its handles
    adsr,      \* an ADSRModule with the gate samples fed to it
    rt         \* the device callback of main: sample cursor and staging buffers

\* the workspace and the two threads
wsvars == <<kind, id, inputs, modules, plan, output, pst, ws, locks, audio, ui>>

\* state of a single module exercised on its own
\* state of a single DSP module computing blocks on its own
dspvars == <<vca, osc, moog, abuf, adsr, rt>>

unitvars == <<call, hist, td, smp, sequencer, bufs, dspvars>>

vars == <<kind, id, inputs, modules, plan, output, pst, ws, locks, audio, ui, unitvars>>

----------------------------------------------------------------------------
(* Bounds *)

MaxHandles == 4     \* Arc allocations that may be alive at once
MaxModules == 2     \* modules the user adds to a workspace
MaxConns == 2       \* wires the user draws in a workspace

Handles == 1..MaxHandles
NoHandle == 0
None == <<>>

----------------------------------------------------------------------------
(* Module contract: ports of the module kinds *)

Kinds == {"Output", "VCA", "ADSR", "Mixer"}

\* AudioConfig.channels as set by the host shell
channels == 2

get_num_inputs(k) ==
    CASE k = "Output" -> channels
      [] k = "VCA" -> 2
      [] k = "ADSR" -> 1
      [] k = "Mixer" -> 4
      [] OTHER -> 0

get_num_outputs(k) ==
    CASE k = "Output" -> 0
      [] k = "VCA" -> 1
      [] k = "ADSR" -> 1
      [] k = "Mixer" -> 1
      [] OTHER -> 0

\* a freshly constructed module has every input slot unconnected
NewInputs(k) == [i \in 0..(get_num_inputs(k) - 1) |-> None]

\* get_inputs: the slots of a module in index order
get_inputs(inp, h) == [i \in 1..Cardinality(DOMAIN inp[h]) |-> inp[h][i - 1]]

\* shared_are_eq: Arc::ptr_eq
shared_are_eq(a, b) == a = b

Range(s) == {s[i] : i \in DOMAIN s}
Reverse(s) == [i \in 1..Len(s) |-> s[Len(s) + 1 - i]]
Min(S) == CHOOSE x \in S : \A y \in S : x <= y
IndexOf(s, x) == Min({i \in 1..Len(s) : s[i] = x})

----------------------------------------------------------------------------
(* plan_execution *)

InList(list, m) == \E i \in 1..Len(list) : shared_are_eq(m, list[i][1])

\* variant of AddInputs that compares an input with execution_list only
RECURSIVE AddInputs_NoConcatCheck(_, _, _, _)
AddInputs_NoConcatCheck(ins, i, execution_list, to_concat) ==
    IF i > Len(ins) THEN to_concat
    ELSE IF ins[i] # None /\ ~InList(execution_list, ins[i][1])
         THEN AddInputs_NoConcatCheck(ins, i + 1, execution_list, Append(to_concat, <<ins[i][1], FALSE>>))
         ELSE AddInputs_NoConcatCheck(ins, i + 1, execution_list, to_concat)

\* the for loop over the inputs of the module being searched
RECURSIVE AddInputs(_, _, _, _)
AddInputs(ins, i, execution_list, to_concat) ==
    IF i > Len(ins) THEN to_concat
    ELSE IF ins[i] # None
            /\ ~InList(execution_list, ins[i][1])
            /\ ~InList(to_concat, ins[i][1])
         THEN AddInputs(ins, i + 1, execution_list, Append(to_concat, <<ins[i][1], FALSE>>))
         ELSE AddInputs(ins, i + 1, execution_list, to_concat)

Unsearched(execution_list) == {i \in 1..Len(execution_list) : ~execution_list[i][2]}

\* variant of SearchBranch that forgets execution_list[idx].1 = true
SearchBranch_NoMark(inp, st) ==
    LET idx == Min(Unsearched(st.execution_list))
        to_search == st.execution_list[idx][1]
        to_concat == AddInputs(get_inputs(inp, to_search), 1, st.execution_list, <<>>)
    IN [st EXCEPT !.execution_list = @ \o to_concat]

\* first branch of the loop: explore the first module not yet searched
SearchBranch(inp, st) ==
    LET idx == Min(Unsearched(st.execution_list))
        to_search == st.execution_list[idx][1]
        to_concat == AddInputs(get_inputs(inp, to_search), 1, st.execution_list, <<>>)
    IN [st EXCEPT !.execution_list =
            [@ EXCEPT ![idx] = <<to_search, TRUE>>] \o to_concat]

\* second branch: pop a module of the workspace list not connected to output
PopBranch(st) ==
    LET n == Len(st.all_modules)
        possibly_unconnected == st.all_modules[n]
        to_concat == IF ~InList(st.execution_list, possibly_unconnected)
                     THEN <<<<possibly_unconnected, FALSE>>>>
                     ELSE <<>>
    IN [st EXCEPT !.all_modules = SubSeq(@, 1, n - 1),
                  !.execution_list = @ \o to_concat]

PlanStart(out, all_modules) ==
    [execution_list |-> <<<<out, FALSE>>>>, all_modules |-> all_modules, done |-> FALSE]

PlanLoopBody(inp, st) ==
    IF Unsearched(st.execution_list) # {} THEN SearchBranch(inp, st)
    ELSE IF st.all_modules # <<>> THEN PopBranch(st)
    ELSE [st EXCEPT !.done = TRUE]

\* variant of PlanResult that keeps the order of discovery
PlanResult_Forward(st) == [i \in 1..Len(st.execution_list) |-> st.execution_list[i][1]]

\* plan.clear(); plan.append(execution_list reversed)
PlanResult(st) == Reverse([i \in 1..Len(st.execution_list) |-> st.execution_list[i][1]])

RECURSIVE PlanLoop(_, _)
PlanLoop(inp, st) == IF st.done THEN st ELSE PlanLoop(inp, PlanLoopBody(inp, st))

plan_execution(inp, out, all_modules) == PlanResult(PlanLoop(inp, PlanStart(out, all_modules)))

\* find_output: first Output module in insertion order
find_output(k, mods) ==
    LET outs == {i \in 1..Len(mods) : k[mods[i]] = "Output"}
    IN IF outs = {} THEN NoHandle ELSE mods[Min(outs)]

\* RwLock of a module: the writer, whether the control thread holds a read
\* guard, and whether a panic under a write guard has poisoned it
Unlocked == [w |-> "none", r |-> FALSE, poisoned |-> FALSE]
IdleLocks == [h \in Handles |-> Unlocked]
NoEdits == [h \in Handles |-> <<>>]
IdleAudio == [pc |-> "idle", idx |-> 0, in |-> 0, pending |-> NoEdits, torn |-> FALSE]
IdleUi == [pc |-> "idle", j |-> 0, acted |-> FALSE, dirty |-> FALSE,
           sink |-> NoHandle, sink_port |-> 0, src_port |-> 0]

\* no module is exercised on its own
NoCall == [op |-> "none", idx |-> 0, res |-> "none"]
\* TransitionDetector::new
NewDetector == [last |-> TRUE, fed |-> <<>>, out |-> <<>>]
\* SampleModule::new with WaveBox::default; no block computed, no file picked
NewSample ==
    [pos |-> 0, playing |-> FALSE, last |-> TRUE,
     samples |-> <<>>, new |-> FALSE, lock |-> "none",
     pc |-> "idle", idx |-> 0, out |-> 0, fed |-> -1, since |-> -1, adopted |-> -1,
     file |-> <<>>, read |-> -1]
\* no sequencer built
NoSequencer ==
    [sequence |-> <<>>, current_step |-> 0, transition_detector |-> TRUE,
     sync_transition_detector |-> TRUE, last |-> 0, cv_out |-> 0, gate_out |-> 0,
     sync_out |-> 0, prev |-> 0, first |-> 0, edges |-> 0, synced |-> FALSE,
     idx |-> 0, sync_prev |-> 0, shrunk |-> FALSE, rose |-> <<FALSE, FALSE>>]
\* no buffer contents followed
NoBufs == [i \in Handles |-> <<>>]
\* no DSP module built
NotBuilt == <<>>
DspIdle ==
    /\ vca = NotBuilt
    /\ osc = NotBuilt
    /\ moog = NotBuilt
    /\ abuf = NotBuilt
    /\ adsr = NotBuilt
    /\ rt = NotBuilt
UnitIdle ==
    /\ call = NoCall
    /\ hist = <<>>
    /\ td = NewDetector
    /\ smp = NewSample
    /\ sequencer = NoSequencer
    /\ bufs = NoBufs
    /\ DspIdle

IdlePst == [execution_list |-> <<>>, all_modules |-> <<>>, done |-> TRUE]
\* record kept of the last completed workspace operation
WsRec(op, m, roundtrip, pre_modules, pre_ids, pre_conns) ==
    [op |-> op, m |-> m, roundtrip |-> roundtrip, pre_modules |-> pre_modules,
     pre_ids |-> pre_ids, pre_conns |-> pre_conns]
IdleWs == WsRec("none", NoHandle, FALSE, <<>>, {}, {})

----------------------------------------------------------------------------
(* Graph notions used by the properties *)

Sources(inp, v) == {inp[v][i][1] : i \in {j \in DOMAIN inp[v] : inp[v][j] # None}}
Edge(inp, u, v) == u \in Sources(inp, v)

RECURSIVE UpstreamFrom(_, _)
UpstreamFrom(inp, S) ==
    LET T == S \cup UNION {Sources(inp, v) : v \in S}
    IN IF T = S THEN S ELSE UpstreamFrom(inp, T)

\* modules reachable from v through input slots (v included)
Upstream(inp, v) == UpstreamFrom(inp, {v})

\* the arc u -> v lies on a cycle iff v feeds (transitively) back into u
OnCycle(inp, u, v) == Edge(inp, u, v) /\ v \in Upstream(inp, u)

NoDup(s) == \A i, j \in 1..Len(s) : i # j => s[i] # s[j]

----------------------------------------------------------------------------
(* Specification SpecPlan: the planner loop on every small graph *)

\* module population of the planner runs: handle -> kind
PlanKinds == <<"Output", "VCA", "ADSR", "ADSR">>
PlanHandles == 1..Len(PlanKinds)
\* insertion orders of the workspace list tried
PlanModuleLists == {<<1, 2, 3, 4>>, <<3, 2, 1, 4>>, <<2, 1>>}

\* a slot of a planner run is empty or wired to port 0 of a module that has outputs
PlanSlotValues == {None} \cup {<<s, 0>> : s \in {h \in PlanHandles : get_num_outputs(PlanKinds[h]) > 0}}
PlanSlots(h) == [0..(get_num_inputs(PlanKinds[h]) - 1) -> PlanSlotValues]

InitPlan ==
    /\ kind = [h \in Handles |-> IF h \in PlanHandles THEN PlanKinds[h] ELSE "Free"]
    /\ id = [h \in Handles |-> IF h \in PlanHandles THEN h ELSE 0]
    /\ modules \in PlanModuleLists
    /\ \E s1 \in PlanSlots(1), s2 \in PlanSlots(2), s3 \in PlanSlots(3), s4 \in PlanSlots(4) :
          inputs = [h \in Handles |->
                      CASE h = 1 -> s1 [] h = 2 -> s2 [] h = 3 -> s3 [] h = 4 -> s4
                        [] OTHER -> NewInputs("Free")]
    /\ output = find_output(kind, modules)
    /\ plan = <<>>
    /\ pst = PlanStart(output, modules)
    /\ ws = IdleWs
    /\ locks = IdleLocks
    /\ audio = IdleAudio
    /\ ui = IdleUi
    /\ UnitIdle

PlanSearch ==
    /\ ~pst.done
    /\ Unsearched(pst.execution_list) # {}
    /\ pst' = SearchBranch(inputs, pst)
    /\ UNCHANGED <<kind, id, inputs, modules, plan, output, ws, locks, audio, ui, unitvars>>

PlanPop ==
    /\ ~pst.done
    /\ Unsearched(pst.execution_list) = {}
    /\ pst.all_modules # <<>>
    /\ pst' = PopBranch(pst)
    /\ UNCHANGED <<kind, id, inputs, modules, plan, output, ws, locks, audio, ui, unitvars>>

PlanBreak ==
    /\ ~pst.done
    /\ Unsearched(pst.execution_list) = {}
    /\ pst.all_modules = <<>>
    /\ pst' = [pst EXCEPT !.done = TRUE]
    /\ plan' = PlanResult(pst)
    /\ UNCHANGED <<kind, id, inputs, modules, output, ws, locks, audio, ui, unitvars>>

NextPlan == PlanSearch \/ PlanPop \/ PlanBreak

SpecPlan == InitPlan /\ [][NextPlan]_vars

\* the planner is a sequential loop: it keeps running until it breaks
SpecPlanFair == SpecPlan /\ WF_vars(NextPlan)

----------------------------------------------------------------------------
(* Properties of the planner *)

PlanNodes == Range(modules) \cup Upstream(inputs, output)

\* C1: in a computed plan, for every connection u -> v that lies on no cycle,
\* u comes strictly before v.
C1_AcyclicEdgesOrdered ==
    pst.done =>
        \A u, v \in Range(plan) :
            (Edge(inputs, u, v) /\ ~OnCycle(inputs, u, v))
                => IndexOf(plan, u) < IndexOf(plan, v)

\* C2: a computed plan holds every module of the workspace list and every
\* module reachable from the terminal output through input slots, each
\* exactly once.
C2_PlanCoversEachOnce ==
    pst.done => (NoDup(plan) /\ PlanNodes \subseteq Range(plan))

\* a finished plan of a graph where one source feeds two slots of one module
\* and a module of the list is not connected to the output
C2_Witness ==
    /\ pst.done
    /\ \E v \in PlanHandles : \E i, j \in DOMAIN inputs[v] :
          i # j /\ inputs[v][i] # None /\ inputs[v][i] = inputs[v][j]
    /\ \E m \in Range(modules) : m \notin Upstream(inputs, output)
    /\ Len(plan) = 4

HasSelfLoop == \E v \in PlanHandles : Edge(inputs, v, v)
HasLongCycle == \E u, v \in PlanHandles : u # v /\ Edge(inputs, u, v) /\ v \in Upstream(inputs, u)

\* C3: on any connection graph, self-loops and longer cycles included, the
\* planner loop reaches its break and returns a total order of the modules.
C3_PlanTerminates ==
    <>(pst.done /\ NoDup(plan) /\ Range(modules) \subseteq Range(plan))

\* the planner has returned on a graph with a self-loop and a longer cycle
C3_Witness == pst.done /\ HasSelfLoop /\ HasLongCycle /\ Len(plan) = 4

\* the simple cycles of the connection graph, each as the sequence of its modules
SimpleCycles(inp) ==
    {c \in UNION {[1..k -> PlanHandles] : k \in 1..Len(PlanKinds)} :
        /\ \A i, j \in DOMAIN c : i # j => c[i] # c[j]
        /\ \A i \in DOMAIN c : Edge(inp, c[i], c[(i % Len(c)) + 1])}

\* arcs of cycle c whose source the plan does not run before their sink
BrokenArcs(c) ==
    {i \in DOMAIN c : ~(IndexOf(plan, c[i]) < IndexOf(plan, c[(i % Len(c)) + 1]))}

\* C25: in a computed plan, every simple cycle of the connection graph has
\* exactly one arc whose source is not ordered before its sink.
C25_OneArcBroken ==
    pst.done =>
        \A c \in SimpleCycles(inputs) :
            (Range(c) \subseteq Range(plan)) => Cardinality(BrokenArcs(c)) = 1

\* C37: in every non-empty plan that plan_execution returns, the terminal
\* Output module is the last element and is nowhere else in the plan, so its
\* calc runs after the calc of every other module.
C37_OutputLast ==
    (pst.done /\ plan # <<>>) =>
        /\ plan[Len(plan)] = output
        /\ \A n \in 1..(Len(plan) - 1) : plan[n] # output

\* a finished plan of four modules for a workspace list in which the Output
\* is neither first nor last
C37_Witness ==
    /\ pst.done
    /\ modules = <<3, 2, 1, 4>>
    /\ Len(plan) = 4
    /\ plan[4] = output
    /\ inputs[output][0] # None

----------------------------------------------------------------------------
(* Module contract: input slots and outputs *)

\* set_input: Err(()) on an index that is no input port of the module
set_input(slots, k, input_idx, src_module, src_port) ==
    IF input_idx < get_num_inputs(k)
    THEN [ok |-> TRUE, slots |-> [slots EXCEPT ![input_idx] = <<src_module, src_port>>]]
    ELSE [ok |-> FALSE, slots |-> slots]

\* variant of disconnect_input that empties every slot of the module
disconnect_input_All(slots, k, input_idx) ==
    IF input_idx < get_num_inputs(k)
    THEN [ok |-> TRUE, slots |-> [i \in DOMAIN slots |-> None]]
    ELSE [ok |-> FALSE, slots |-> slots]

\* disconnect_input
disconnect_input(slots, k, input_idx) ==
    IF input_idx < get_num_inputs(k)
    THEN [ok |-> TRUE, slots |-> [slots EXCEPT ![input_idx] = None]]
    ELSE [ok |-> FALSE, slots |-> slots]

\* disconnect_inputs: every input slot of the module becomes unconnected
disconnect_inputs(slots) == [i \in DOMAIN slots |-> None]

\* get_output: Ok for a port the kind has, Err(()) otherwise
get_output(k, output_idx) == IF output_idx < get_num_outputs(k) THEN "Ok" ELSE "Err"

\* resolve_input: the upstream buffer, the empty buffer, or the error of get_output
resolve_input(k, inp, h, input_idx) ==
    IF inp[h][input_idx] = None THEN "Ok"
    ELSE get_output(k[inp[h][input_idx][1]], inp[h][input_idx][2])

----------------------------------------------------------------------------
(* Workspace *)

\* SynthModuleWorkspaceImpl::plan
Replan(k, inp, mods) ==
    LET out == find_output(k, mods)
    IN IF out # NoHandle
       THEN [plan |-> plan_execution(inp, out, mods), output |-> out]
       ELSE [plan |-> <<>>, output |-> NoHandle]

\* Arcs still held by the workspace list, the plan, the output reference or
\* an input slot of such a module
Alive(inp, mods, pl, out) ==
    UpstreamFrom(inp, (Range(mods) \cup Range(pl) \cup {out}) \ {NoHandle})

FreeHandles == {h \in Handles : kind[h] = "Free"}
FilledSlots(inp, mods) ==
    {<<h, i>> \in Range(mods) \X (0..3) : i \in DOMAIN inp[h] /\ inp[h][i] # None}

\* ids and connections of a workspace, as compared by a round trip
IdsOf(i, mods) == {i[h] : h \in Range(mods)}
ConnsOf(i, inp, mods) ==
    {<<i[inp[s[1]][s[2]][1]], inp[s[1]][s[2]][2], i[s[1]], s[2]>> : s \in FilledSlots(inp, mods)}

\* s followed by the elements of t that s does not hold yet
RECURSIVE AppendNew(_, _)
AppendNew(s, t) ==
    IF t = <<>> THEN s
    ELSE AppendNew(IF Head(t) \in Range(s) THEN s ELSE Append(s, Head(t)), Tail(t))

RECURSIVE Sorted(_)
Sorted(S) == IF S = {} THEN <<>> ELSE <<Min(S)>> \o Sorted(S \ {Min(S)})

\* An Arc's address carries no meaning: the live modules are numbered in the
\* order workspace list, plan, others
CanonOrder(mods, pl, alive) == AppendNew(AppendNew(mods, pl), Sorted(alive))

\* common tail of the operations: new module fields, list, plan and record;
\* a module whose last Arc is gone is dropped
Commit(k, i, inp, mods, pl, out, rec) ==
    \E alive \in {Alive(inp, mods, pl, out)} :
    \E ord \in {CanonOrder(mods, pl, alive)} :
    \E ren \in {[h \in 0..MaxHandles |->
                  IF h = NoHandle THEN NoHandle
                  ELSE IF h \in alive THEN IndexOf(ord, h) ELSE Len(ord) + 1]} :
        /\ kind' = [h \in Handles |-> IF h <= Len(ord) THEN k[ord[h]] ELSE "Free"]
        /\ id' = [h \in Handles |-> IF h <= Len(ord) THEN i[ord[h]] ELSE 0]
        /\ inputs' = [h \in Handles |->
                        IF h <= Len(ord)
                        THEN [n \in DOMAIN inp[ord[h]] |->
                                IF inp[ord[h]][n] = None THEN None
                                ELSE <<ren[inp[ord[h]][n][1]], inp[ord[h]][n][2]>>]
                        ELSE NewInputs("Free")]
        /\ modules' = [n \in 1..Len(mods) |-> ren[mods[n]]]
        /\ plan' = [n \in 1..Len(pl) |-> ren[pl[n]]]
        /\ output' = ren[out]
        /\ ws' = [rec EXCEPT !.m = ren[@],
                             !.pre_modules = [n \in 1..Len(@) |-> ren[@[n]]]]
        /\ UNCHANGED <<pst, locks, audio, ui, unitvars>>

\* kinds the user adds from the catalog
CatalogKinds == {"Output", "VCA"}

\* add_module: push on the list (the module was built by its catalog constructor)
add_module(k) ==
    /\ Len(modules) < MaxModules
    /\ FreeHandles # {}
    /\ LET h == Min(FreeHandles)
           newid == Min({n \in Handles : \A g \in Handles : id[g] # n})
       IN Commit([kind EXCEPT ![h] = k], [id EXCEPT ![h] = newid],
                 [inputs EXCEPT ![h] = NewInputs(k)],
                 Append(modules, h), plan, output,
                 WsRec("add", h, FALSE, <<>>, {}, {}))

\* variant of DisconnectRefs that leaves the slots referring to m alone
DisconnectRefs_Skip(inp, mods, m) == inp

\* delete_module, first loop: disconnect any input connected to module m
DisconnectRefs(inp, mods, m) ==
    [h \in Handles |->
        IF h \in Range(mods)
        THEN [i \in DOMAIN inp[h] |->
                IF inp[h][i] # None /\ shared_are_eq(m, inp[h][i][1]) THEN None ELSE inp[h][i]]
        ELSE inp[h]]

\* delete_module, second step: remove the first list element equal to m
RemoveModule(mods, m) ==
    LET hits == {i \in 1..Len(mods) : shared_are_eq(m, mods[i])}
    IN IF hits = {} THEN mods
       ELSE SubSeq(mods, 1, Min(hits) - 1) \o SubSeq(mods, Min(hits) + 1, Len(mods))

\* delete_module, reached from the "Delete module" button (absent on Output)
delete_module(m) ==
    /\ m \in Range(modules)
    /\ kind[m] # "Output"
    /\ \E inp \in {DisconnectRefs(inputs, modules, m)} :
       \E mods \in {RemoveModule(modules, m)} :
       \E p \in {Replan(kind, inp, mods)} :
          Commit(kind, id, inp, mods, p.plan, p.output,
                 WsRec("delete", m, FALSE, <<>>, IdsOf(id, modules),
                       ConnsOf(id, inputs, modules)))

\* ui: a port dropped on another port sets the input, then replans
connect(src, src_port, sink, sink_port) ==
    /\ src \in Range(modules) /\ sink \in Range(modules)
    /\ src_port < get_num_outputs(kind[src])
    /\ sink_port < get_num_inputs(kind[sink])
    /\ Cardinality(FilledSlots(inputs, modules) \cup {<<sink, sink_port>>}) <= MaxConns
    /\ \E r \in {set_input(inputs[sink], kind[sink], sink_port, src, src_port)} :
       \E inp \in {[inputs EXCEPT ![sink] = r.slots]} :
       \E p \in {Replan(kind, inp, modules)} :
          Commit(kind, id, inp, modules, p.plan, p.output,
                 WsRec("connect", NoHandle, FALSE, <<>>, {}, {}))

\* ui: secondary click on an input handle disconnects it, then replans
disconnect(sink, sink_port) ==
    /\ sink \in Range(modules)
    /\ sink_port < get_num_inputs(kind[sink])
    /\ \E r \in {disconnect_input(inputs[sink], kind[sink], sink_port)} :
       \E inp \in {[inputs EXCEPT ![sink] = r.slots]} :
       \E p \in {Replan(kind, inp, modules)} :
          Commit(kind, id, inp, modules, p.plan, p.output,
                 WsRec("disconnect", NoHandle, FALSE, <<>>, {}, {}))

\* ui: secondary click on an output handle disconnects every input fed by
\* that port; the plan is recomputed only when something was disconnected
disconnect_output(src, src_port) ==
    /\ src \in Range(modules)
    /\ src_port < get_num_outputs(kind[src])
    /\ \E inp \in {[h \in Handles |->
                     IF h \in Range(modules)
                     THEN [i \in DOMAIN inputs[h] |->
                             IF inputs[h][i] = <<src, src_port>> THEN None ELSE inputs[h][i]]
                     ELSE inputs[h]]} :
       \E dirty \in {inp # inputs} :
       \E p \in {IF dirty THEN Replan(kind, inp, modules)
                  ELSE [plan |-> plan, output |-> output]} :
          Commit(kind, id, inp, modules, p.plan, p.output,
                 WsRec("disconnect_output", NoHandle, FALSE, <<>>, {}, {}))

----------------------------------------------------------------------------
(* Patch codec: FileFormat *)

\* any_module_to_enum: the record of a module keeps its kind and its id
any_module_to_enum(k, i, h) == [id |-> i[h], kind |-> k[h]]

\* enum_to_sharedsynthmodule: a new module of the recorded kind and id; input
\* slots are not part of a record and start empty
enum_to_sharedsynthmodule(rec) == [id |-> rec.id, kind |-> rec.kind, inputs |-> NewInputs(rec.kind)]

\* capture_modules: one record per module, in list order
capture_modules(k, i, mods) == [n \in 1..Len(mods) |-> any_module_to_enum(k, i, mods[n])]

\* variant of CaptureSlots that writes the sink id where the source id belongs
RECURSIVE CaptureSlots_SinkFirst(_, _, _, _)
CaptureSlots_SinkFirst(i, inp, h, sink_port) ==
    IF sink_port \notin DOMAIN inp[h] THEN <<>>
    ELSE (IF inp[h][sink_port] = None THEN <<>>
          ELSE <<<<i[h], inp[h][sink_port][2], i[inp[h][sink_port][1]], sink_port>>>>)
         \o CaptureSlots_SinkFirst(i, inp, h, sink_port + 1)

\* capture_connections, inner loop: the filled slots of one module in index order
RECURSIVE CaptureSlots(_, _, _, _)
CaptureSlots(i, inp, h, sink_port) ==
    IF sink_port \notin DOMAIN inp[h] THEN <<>>
    ELSE (IF inp[h][sink_port] = None THEN <<>>
          ELSE <<<<i[inp[h][sink_port][1]], inp[h][sink_port][2], i[h], sink_port>>>>)
         \o CaptureSlots(i, inp, h, sink_port + 1)

\* capture_connections: (src_id, src_port, sink_id, sink_port) of every filled slot
RECURSIVE capture_connections(_, _, _, _)
capture_connections(i, inp, mods, n) ==
    IF n > Len(mods) THEN <<>>
    ELSE CaptureSlots(i, inp, mods[n], 0) \o capture_connections(i, inp, mods, n + 1)

\* capture_connections unwraps the id of every source: the source is in the list
CanSerialize(inp, mods) == \A h \in Range(mods) : Sources(inp, h) \subseteq Range(mods)

\* serialize: the payload written to the patch file
serialize(k, i, inp, mods) ==
    [wellformed |-> TRUE,
     modules |-> capture_modules(k, i, mods),
     connections |-> capture_connections(i, inp, mods, 1)]

\* a payload that FileFormat::deserialize rejects (truncated, unknown tag)
Truncated == [wellformed |-> FALSE, modules |-> <<>>, connections |-> <<>>]

\* the n smallest elements of S in increasing order
RECURSIVE Smallest(_, _)
Smallest(S, n) == IF n = 0 THEN <<>> ELSE <<Min(S)>> \o Smallest(S \ {Min(S)}, n - 1)

\* unpack_modules: records are popped from the back, each becomes a new Arc
unpack_modules(recs, free) ==
    LET hs == Smallest(free, Len(recs))
    IN [mods |-> hs,
        rec |-> [n \in 1..Len(recs) |-> enum_to_sharedsynthmodule(recs[Len(recs) + 1 - n])]]

\* unpack_connections, id_map: a later module of the list replaces an earlier
\* one with the same id
IdMap(i, mods, x) ==
    LET hits == {n \in 1..Len(mods) : i[mods[n]] = x}
    IN IF hits = {} THEN NoHandle ELSE mods[CHOOSE n \in hits : \A o \in hits : o <= n]

\* unpack_connections, loop body: the record is applied when both ids are
\* known; the result of set_input is dropped
ApplyConnection(k, i, inp, mods, c) ==
    LET src == IdMap(i, mods, c[1])
        sink == IdMap(i, mods, c[3])
    IN IF sink # NoHandle /\ src # NoHandle
       THEN [inp EXCEPT ![sink] = set_input(inp[sink], k[sink], c[4], src, c[2]).slots]
       ELSE inp

\* unpack_connections: records are popped from the back
RECURSIVE unpack_connections(_, _, _, _, _)
unpack_connections(k, i, inp, mods, conns) ==
    IF conns = <<>> THEN inp
    ELSE unpack_connections(k, i, ApplyConnection(k, i, inp, mods, conns[Len(conns)]),
                            mods, SubSeq(conns, 1, Len(conns) - 1))

\* deserialize
deserialize(buf) ==
    \E inp1 \in {[h \in Handles |->
                   IF h \in Range(modules) THEN disconnect_inputs(inputs[h]) ELSE inputs[h]]} :
       IF ~buf.wellformed
       THEN \* the ? operator returns after self.modules.clear()
            Commit(kind, id, inp1, <<>>, plan, output,
                   WsRec("load_err", NoHandle, FALSE, modules, {}, {}))
       ELSE /\ Cardinality(FreeHandles) >= Len(buf.modules)
            /\ \E u \in {unpack_modules(buf.modules, FreeHandles)} :
               \E k2 \in {[h \in Handles |->
                            IF \E n \in 1..Len(u.mods) : u.mods[n] = h
                            THEN u.rec[CHOOSE n \in 1..Len(u.mods) : u.mods[n] = h].kind
                            ELSE kind[h]]} :
               \E i2 \in {[h \in Handles |->
                            IF \E n \in 1..Len(u.mods) : u.mods[n] = h
                            THEN u.rec[CHOOSE n \in 1..Len(u.mods) : u.mods[n] = h].id
                            ELSE id[h]]} :
               \E inp2 \in {[h \in Handles |->
                            IF \E n \in 1..Len(u.mods) : u.mods[n] = h
                            THEN u.rec[CHOOSE n \in 1..Len(u.mods) : u.mods[n] = h].inputs
                            ELSE inp1[h]]} :
               \E inp3 \in {unpack_connections(k2, i2, inp2, u.mods, buf.connections)} :
               \E p \in {Replan(k2, inp3, u.mods)} :
               \E roundtrip \in {CanSerialize(inputs, modules)
                                 /\ buf = serialize(kind, id, inputs, modules)} :
                  Commit(k2, i2, inp3, u.mods, p.plan, p.output,
                         WsRec("load_ok", NoHandle, roundtrip, <<>>,
                               IF roundtrip THEN IdsOf(id, modules) ELSE {},
                               IF roundtrip THEN ConnsOf(id, inputs, modules) ELSE {}))

\* patch files offered to open(): hand-made payloads whose connection
\* records name absent ids and ports out of range
CraftedModules ==
    {<<[id |-> 1, kind |-> "Output"], [id |-> 2, kind |-> "VCA"]>>,
     <<[id |-> 2, kind |-> "VCA"], [id |-> 1, kind |-> "Output"]>>,
     <<[id |-> 1, kind |-> "VCA"]>>}
\* (src_id, src_port, sink_id, sink_port): a valid wire, an absent source, an
\* absent sink, a source port and a sink port out of range, a self-loop
CraftedRecords ==
    {<<2, 0, 1, 0>>, <<3, 0, 1, 0>>, <<2, 0, 3, 0>>, <<2, 1, 1, 0>>,
     <<2, 0, 1, 2>>, <<1, 0, 2, 0>>, <<2, 0, 2, 0>>}
CraftedConnections == {<<>>, <<<<2, 0, 1, 0>>, <<2, 0, 1, 1>>>>} \cup {<<c>> : c \in CraftedRecords}
CraftedFiles ==
    {[wellformed |-> TRUE, modules |-> m, connections |-> c] :
        m \in CraftedModules, c \in CraftedConnections}

\* the file saved from the current workspace, when save() does not panic
SavedFiles ==
    IF CanSerialize(inputs, modules) THEN {serialize(kind, id, inputs, modules)} ELSE {}

----------------------------------------------------------------------------
(* Specification Spec: the control thread's operations on a workspace *)

Init ==
    /\ kind = [h \in Handles |-> "Free"]
    /\ id = [h \in Handles |-> 0]
    /\ inputs = [h \in Handles |-> NewInputs("Free")]
    /\ modules = <<>>
    /\ plan = <<>>
    /\ output = NoHandle
    /\ pst = IdlePst
    /\ ws = IdleWs
    /\ locks = IdleLocks
    /\ audio = IdleAudio
    /\ ui = IdleUi
    /\ UnitIdle

AddModule == \E k \in CatalogKinds : add_module(k)
DeleteModule == \E m \in Handles : delete_module(m)
Connect == \E src, sink \in Handles : \E src_port \in 0..2, sink_port \in 0..3 :
               connect(src, src_port, sink, sink_port)
Disconnect == \E sink \in Handles : \E sink_port \in 0..3 : disconnect(sink, sink_port)
DisconnectOutput == \E src \in Handles : \E src_port \in 0..2 : disconnect_output(src, src_port)
OpenSaved == \E buf \in SavedFiles : deserialize(buf)
OpenCrafted == \E buf \in CraftedFiles : deserialize(buf)
OpenTruncated == deserialize(Truncated)

Next ==
    \/ AddModule
    \/ DeleteModule
    \/ Connect
    \/ Disconnect
    \/ DisconnectOutput
    \/ OpenSaved
    \/ OpenCrafted
    \/ OpenTruncated

Spec == Init /\ [][Next]_vars

----------------------------------------------------------------------------
(* Properties of the workspace operations *)

\* C7: after delete_module(m) no input slot of a module left in the
\* workspace refers to m, m is not in the module list and not in the plan.
C7_DeletedModuleGone ==
    ws.op = "delete" =>
        /\ ws.m \notin Range(modules)
        /\ ws.m \notin Range(plan)
        /\ \A h \in Range(modules) : ws.m \notin Sources(inputs, h)

\* a delete of a module that fed another module, in a workspace with an Output
C7_Witness ==
    /\ ws.op = "delete"
    /\ output # NoHandle
    /\ plan # <<>>
    /\ \E c \in ws.pre_conns : c[1] \notin IdsOf(id, modules) /\ c[3] \in IdsOf(id, modules)

\* C8: when deserialize returns an error the workspace still holds the
\* modules it had before the call, each with every input slot disconnected.
C8_FailedLoadKeepsModules ==
    ws.op = "load_err" =>
        /\ modules = ws.pre_modules
        /\ \A h \in Range(modules) : \A n \in DOMAIN inputs[h] : inputs[h][n] = None

\* C9: after a successful load every filled input slot names a source that is
\* in the workspace and a port that source has, so resolve_input succeeds.
C9_LoadedSlotsResolve ==
    ws.op = "load_ok" =>
        \A h \in Range(modules) : \A n \in DOMAIN inputs[h] :
            inputs[h][n] # None =>
                /\ inputs[h][n][1] \in Range(modules)
                /\ inputs[h][n][2] < get_num_outputs(kind[inputs[h][n][1]])
                /\ resolve_input(kind, inputs, h, n) = "Ok"

\* C26: after every completed workspace operation, a failed load included,
\* each module of the plan and the module of the terminal-output reference
\* is in the workspace module list.
C26_PlanWithinModules ==
    ws.op # "none" =>
        /\ Range(plan) \subseteq Range(modules)
        /\ output # NoHandle => output \in Range(modules)

\* C10: loading the file saved from a workspace gives a workspace with the
\* same set of module ids and the same set of connections.
C10_RoundTrip ==
    (ws.op = "load_ok" /\ ws.roundtrip) =>
        /\ IdsOf(id, modules) = ws.pre_ids
        /\ ConnsOf(id, inputs, modules) = ws.pre_conns

\* a round trip of a workspace with two modules and two wires
C10_Witness ==
    /\ ws.op = "load_ok" /\ ws.roundtrip
    /\ Cardinality(ws.pre_ids) >= 2
    /\ Cardinality(ws.pre_conns) >= 2
    /\ Cardinality(ConnsOf(id, inputs, modules)) >= 2

\* the ids of a list of modules, in list order
IdSeq(i, mods) == [n \in 1..Len(mods) |-> i[mods[n]]]

\* C36: loading the file saved from a workspace W gives the modules of W in
\* the insertion order of W, the terminal output that W has (its first
\* Output in insertion order) and the plan that is computed for W.
C36_RoundTripKeepsOrder ==
    [][(ws'.op = "load_ok" /\ ws'.roundtrip) =>
          LET p == Replan(kind, inputs, modules)
          IN /\ IdSeq(id', modules') = IdSeq(id, modules)
             /\ (p.output # NoHandle) => (output' # NoHandle /\ id'[output'] = id[p.output])
             /\ IdSeq(id', plan') = IdSeq(id, p.plan)]_vars

\* C12: after every structural edit (add, delete, connect, disconnect, load)
\* the plan has been recomputed: when the workspace holds an Output module
\* the plan lists every module of the workspace, one just added included.
C12_EditsReplan ==
    (ws.op # "none" /\ \E h \in Range(modules) : kind[h] = "Output")
        => Range(modules) \subseteq Range(plan)

----------------------------------------------------------------------------
(* Specification SpecConc: the audio thread running execute while the     *)
(* control thread runs SynthModuleWorkspace::ui, one step per lock         *)
(* operation.  The workspace holds an Output and a Mono Mixer, added in    *)
(* either order.                                                           *)

\* RwLock::write succeeds when no guard is out
CanWrite(h) == locks[h].w = "none" /\ ~locks[h].r

\* a panic unwinds: write guards of the thread are dropped and poison the
\* lock, its read guard is dropped
Unwind(l, t) ==
    [h \in Handles |->
        IF l[h].w = t THEN [w |-> "none", r |-> l[h].r, poisoned |-> TRUE]
        ELSE IF t = "ui" /\ l[h].r THEN [l[h] EXCEPT !.r = FALSE]
        ELSE l[h]]

\* what std documents for locking an RwLock the thread already holds
Relock == {"deadlock", "panic"}

InitConc ==
    /\ kind = [h \in Handles |-> CASE h = 1 -> "Output" [] h = 2 -> "Mixer" [] OTHER -> "Free"]
    /\ id = [h \in Handles |-> IF h <= 2 THEN h ELSE 0]
    /\ inputs = [h \in Handles |-> NewInputs(kind[h])]
    /\ modules \in {<<1, 2>>, <<2, 1>>}
    /\ plan = Replan(kind, inputs, modules).plan
    /\ output = Replan(kind, inputs, modules).output
    /\ pst = IdlePst
    /\ ws = IdleWs
    /\ locks = IdleLocks
    /\ audio = IdleAudio
    /\ ui = IdleUi
    /\ UnitIdle

\* execute has called calc at least once in the running pass
MidBlock == audio.pc = "calc" \/ (audio.pc = "lock" /\ audio.idx > 1)

\* remembers the slots a module had before its first edit part-way
\* through the running pass
NoteEdit(x) ==
    IF MidBlock /\ audio.pending[x] = <<>>
    THEN [audio EXCEPT !.pending[x] = <<inputs[x]>>]
    ELSE audio

\* execute is entered with the plan locked
A_Begin ==
    /\ audio.pc = "idle"
    /\ plan # <<>>
    /\ audio' = [audio EXCEPT !.pc = "lock", !.idx = 1, !.in = 0, !.pending = NoEdits]
    /\ UNCHANGED <<kind, id, inputs, modules, plan, output, pst, ws, locks, ui, unitvars>>

\* variant of A_Lock that enters calc without the write guard
A_Lock_NoGuard ==
    /\ audio.pc = "lock"
    /\ audio' = [audio EXCEPT !.pc = "calc", !.in = 0]
    /\ UNCHANGED <<kind, id, inputs, modules, plan, output, pst, ws, locks, ui, unitvars>>

\* ssm.write().unwrap()
A_Lock ==
    /\ audio.pc = "lock"
    /\ LET m == plan[audio.idx] IN
        /\ CanWrite(m)
        /\ IF locks[m].poisoned
           THEN /\ audio' = [audio EXCEPT !.pc = "panic"]
                /\ UNCHANGED locks
           ELSE /\ locks' = [locks EXCEPT ![m].w = "audio"]
                /\ audio' = [audio EXCEPT !.pc = "calc", !.in = 0,
                                !.torn = @ \/ (audio.pending[m] # <<>>
                                               /\ audio.pending[m][1] # inputs[m])]
    /\ UNCHANGED <<kind, id, inputs, modules, plan, output, pst, ws, ui, unitvars>>

\* calc: self.resolve_input(n).unwrap() for the next input
A_Resolve ==
    /\ audio.pc = "calc"
    /\ LET m == plan[audio.idx]
           slot == inputs[m][audio.in]
       IN
        /\ audio.in < get_num_inputs(kind[m])
        /\ IF slot = None
           THEN /\ audio' = [audio EXCEPT !.in = @ + 1]
                /\ UNCHANGED locks
           ELSE IF slot[1] = m
           THEN \* src_module.read() under the write guard execute holds
                \E outcome \in Relock :
                    /\ audio' = [audio EXCEPT !.pc = outcome]
                    /\ locks' = IF outcome = "panic" THEN Unwind(locks, "audio") ELSE locks
           ELSE /\ locks[slot[1]].w = "none"
                /\ IF locks[slot[1]].poisoned \/ get_output(kind[slot[1]], slot[2]) = "Err"
                   THEN /\ audio' = [audio EXCEPT !.pc = "panic"]
                        /\ locks' = Unwind(locks, "audio")
                   ELSE /\ audio' = [audio EXCEPT !.in = @ + 1]
                        /\ UNCHANGED locks
    /\ UNCHANGED <<kind, id, inputs, modules, plan, output, pst, ws, ui, unitvars>>

\* calc returns, the write guard is dropped, the loop moves on
A_Unlock ==
    /\ audio.pc = "calc"
    /\ LET m == plan[audio.idx] IN
        /\ audio.in = get_num_inputs(kind[m])
        /\ locks' = [locks EXCEPT ![m].w = "none"]
        /\ audio' = IF audio.idx = Len(plan)
                    THEN [audio EXCEPT !.pc = "idle", !.idx = 0, !.in = 0]
                    ELSE [audio EXCEPT !.pc = "lock", !.idx = @ + 1, !.in = 0]
    /\ UNCHANGED <<kind, id, inputs, modules, plan, output, pst, ws, ui, unitvars>>

\* a frame begins
U_Begin ==
    /\ ui.pc = "idle"
    /\ modules # <<>>
    /\ ui' = [IdleUi EXCEPT !.pc = "lock1", !.j = 1]
    /\ UNCHANGED <<kind, id, inputs, modules, plan, output, pst, ws, locks, audio, unitvars>>

\* first loop: module_ref.write().unwrap()
U_Lock ==
    /\ ui.pc = "lock1"
    /\ LET m == modules[ui.j] IN
        /\ CanWrite(m)
        /\ IF locks[m].poisoned
           THEN /\ ui' = [ui EXCEPT !.pc = "panic"]
                /\ UNCHANGED locks
           ELSE /\ locks' = [locks EXCEPT ![m].w = "ui"]
                /\ ui' = [ui EXCEPT !.pc = "render"]
    /\ UNCHANGED <<kind, id, inputs, modules, plan, output, pst, ws, audio, unitvars>>

\* secondary click on an input handle of the module being rendered
U_ClickDisconnect ==
    /\ ui.pc = "render" /\ ~ui.acted
    /\ LET m == modules[ui.j] IN
       \E idx \in DOMAIN inputs[m] :
        /\ inputs' = [inputs EXCEPT ![m] = disconnect_input(@, kind[m], idx).slots]
        /\ audio' = NoteEdit(m)
        /\ ui' = [ui EXCEPT !.acted = TRUE, !.dirty = TRUE]
    /\ UNCHANGED <<kind, id, modules, plan, output, pst, ws, locks, unitvars>>

\* an output port is dropped on an input handle of the module being rendered
U_DropOnInput ==
    /\ ui.pc = "render" /\ ~ui.acted
    /\ LET m == modules[ui.j] IN
       \E idx \in DOMAIN inputs[m] : \E src \in Range(modules) : \E p \in 0..2 :
        /\ p < get_num_outputs(kind[src])
        /\ Cardinality(FilledSlots(inputs, modules) \cup {<<m, idx>>}) <= MaxConns
        /\ inputs' = [inputs EXCEPT ![m] = set_input(@, kind[m], idx, src, p).slots]
        /\ audio' = NoteEdit(m)
        /\ ui' = [ui EXCEPT !.acted = TRUE, !.dirty = TRUE]
    /\ UNCHANGED <<kind, id, modules, plan, output, pst, ws, locks, unitvars>>

\* an input port is dropped on an output handle of the module being
\* rendered: input_module.write() is taken under the guard of module_ref
U_DropOnOutput ==
    /\ ui.pc = "render" /\ ~ui.acted
    /\ LET m == modules[ui.j] IN
       \E p \in 0..2 : \E sink \in Range(modules) : \E idx \in DOMAIN inputs[sink] :
        /\ p < get_num_outputs(kind[m])
        /\ Cardinality(FilledSlots(inputs, modules) \cup {<<sink, idx>>}) <= MaxConns
        /\ IF sink = m
           THEN \E outcome \in Relock :
                    /\ ui' = [ui EXCEPT !.pc = outcome, !.acted = TRUE]
                    /\ locks' = IF outcome = "panic" THEN Unwind(locks, "ui") ELSE locks
           ELSE /\ ui' = [ui EXCEPT !.pc = "want", !.acted = TRUE, !.sink = sink,
                                    !.sink_port = idx, !.src_port = p]
                /\ UNCHANGED locks
    /\ UNCHANGED <<kind, id, inputs, modules, plan, output, pst, ws, audio, unitvars>>

\* the guard of the sink arrives: set_input, guard dropped at the end of the block
U_SetSink ==
    /\ ui.pc = "want"
    /\ CanWrite(ui.sink)
    /\ IF locks[ui.sink].poisoned
       THEN /\ ui' = [ui EXCEPT !.pc = "panic"]
            /\ locks' = Unwind(locks, "ui")
            /\ UNCHANGED <<inputs, audio>>
       ELSE /\ inputs' = [inputs EXCEPT ![ui.sink] =
                            set_input(@, kind[ui.sink], ui.sink_port, modules[ui.j], ui.src_port).slots]
            /\ audio' = NoteEdit(ui.sink)
            /\ ui' = [ui EXCEPT !.pc = "render", !.dirty = TRUE, !.sink = NoHandle,
                                !.sink_port = 0, !.src_port = 0]
            /\ UNCHANGED locks
    /\ UNCHANGED <<kind, id, modules, plan, output, pst, ws, unitvars>>

\* the module is rendered, its guard dropped at the end of the loop body
U_Unlock ==
    /\ ui.pc = "render"
    /\ locks' = [locks EXCEPT ![modules[ui.j]].w = "none"]
    /\ ui' = IF ui.j = Len(modules)
             THEN [ui EXCEPT !.pc = "lock2", !.j = 1]
             ELSE [ui EXCEPT !.pc = "lock1", !.j = @ + 1]
    /\ UNCHANGED <<kind, id, inputs, modules, plan, output, pst, ws, audio, unitvars>>

\* second loop: module_ref.read().unwrap()
U_ReadLock ==
    /\ ui.pc = "lock2"
    /\ LET m == modules[ui.j] IN
        /\ locks[m].w = "none"
        /\ IF locks[m].poisoned
           THEN /\ ui' = [ui EXCEPT !.pc = "panic"]
                /\ UNCHANGED locks
           ELSE /\ locks' = [locks EXCEPT ![m].r = TRUE]
                /\ ui' = [ui EXCEPT !.pc = "draw"]
    /\ UNCHANGED <<kind, id, inputs, modules, plan, output, pst, ws, audio, unitvars>>

\* the wires of the module are drawn: input_module.read() of every source
U_Draw ==
    /\ ui.pc = "draw"
    /\ LET m == modules[ui.j]
           next == IF ui.j = Len(modules)
                   THEN [ui EXCEPT !.pc = "plan"]
                   ELSE [ui EXCEPT !.pc = "lock2", !.j = @ + 1]
       IN
        /\ \A src \in Sources(inputs, m) \ {m} : locks[src].w = "none"
        /\ IF \E src \in Sources(inputs, m) : locks[src].poisoned
           THEN /\ ui' = [ui EXCEPT !.pc = "panic"]
                /\ locks' = Unwind(locks, "ui")
           ELSE \/ /\ ui' = next
                   /\ locks' = [locks EXCEPT ![m].r = FALSE]
                \/ /\ m \in Sources(inputs, m)
                   /\ \E outcome \in Relock :
                        /\ ui' = [ui EXCEPT !.pc = outcome]
                        /\ locks' = IF outcome = "panic" THEN Unwind(locks, "ui") ELSE locks
    /\ UNCHANGED <<kind, id, inputs, modules, plan, output, pst, ws, audio, unitvars>>

\* the audio callback keeps the plan locked from the start of a pass to
\* its end; a pass that never ends never unlocks it
PlanLocked == audio.pc # "idle"

\* if dirty { workspace.plan() }: self.plan.lock(), then the plan is recomputed
U_Plan ==
    /\ ui.pc = "plan"
    /\ IF ui.dirty
       THEN /\ ~PlanLocked
            /\ \E p \in {Replan(kind, inputs, modules)} :
                  plan' = p.plan /\ output' = p.output
       ELSE UNCHANGED <<plan, output>>
    /\ ui' = IdleUi
    /\ UNCHANGED <<kind, id, inputs, modules, pst, ws, locks, audio, unitvars>>

NextConc ==
    \/ A_Begin \/ A_Lock \/ A_Resolve \/ A_Unlock
    \/ U_Begin \/ U_Lock \/ U_ClickDisconnect \/ U_DropOnInput \/ U_DropOnOutput
    \/ U_SetSink \/ U_Unlock \/ U_ReadLock \/ U_Draw \/ U_Plan

SpecConc == InitConc /\ [][NextConc]_vars

----------------------------------------------------------------------------
(* Properties of the two threads *)

Occurrences(seq, x) == Cardinality({i \in DOMAIN seq : seq[i] = x})

\* the module execute is at
Current == IF audio.idx \in DOMAIN plan THEN plan[audio.idx] ELSE NoHandle

\* C4: once the control thread has connected input 0 of the mixer to the
\* mixer's own output and finished its frame, the plan holds the mixer
\* exactly once and no execute pass ends in a panic or a deadlock.
C4_SelfLoopRuns ==
    \A m \in Range(modules) :
        (kind[m] = "Mixer" /\ inputs[m][0] = <<m, 0>> /\ ui.pc = "idle")
            => (Occurrences(plan, m) = 1 /\ audio.pc \notin {"deadlock", "panic"})

\* the lock the audio thread is waiting for is held by the control thread
AudioWaitsForUi ==
    \/ /\ audio.pc = "lock"
       /\ (locks[Current].w = "ui" \/ locks[Current].r)
    \/ /\ audio.pc = "calc"
       /\ audio.in < get_num_inputs(kind[Current])
       /\ inputs[Current][audio.in] # None
       /\ locks[inputs[Current][audio.in][1]].w = "ui"

\* the control thread will never release what it holds: it waits for itself,
\* or for a module whose calc the audio thread is in
UiNeverReleases ==
    \/ ui.pc = "deadlock"
    \/ ui.pc = "want" /\ locks[ui.sink].w = "audio"

\* C5: under every interleaving of execute with the UI pass the audio thread
\* is never blocked forever on a module lock and the two threads never
\* deadlock.
C5_AudioNeverStuck == ~(AudioWaitsForUi /\ UiNeverReleases)

\* C6: no calc sees input slots that the control thread changed after an
\* earlier calc of the same execute pass had begun.
C6_NoMidBlockEdit == ~audio.torn

\* the control thread is rendering the panel of m or editing its slots
UiInside(m) ==
    \/ ui.pc \in {"render", "want"} /\ modules[ui.j] = m
    \/ locks[m].w = "ui"

\* C35: execute calls calc once on each element of the plan, in plan order:
\* a pass starts at the first element, moves from one element to the next
\* and ends after the last.  While calc of a module runs the audio thread
\* holds the write lock of that module and of no other, and the control
\* thread is not inside that module; between two calcs it holds none.
C35_OneCalcUnderLock ==
    /\ [](/\ audio.pc = "calc" =>
                /\ locks[Current].w = "audio"
                /\ \A h \in Handles \ {Current} : locks[h].w # "audio"
                /\ ~UiInside(Current)
          /\ audio.pc \in {"idle", "lock"} => \A h \in Handles : locks[h].w # "audio")
    /\ [][/\ (audio.pc = "idle" /\ audio'.pc # "idle") => (audio'.pc = "lock" /\ audio'.idx = 1)
          /\ (audio.pc = "lock" /\ audio'.pc = "calc") => audio'.idx = audio.idx
          /\ (audio.pc = "calc" /\ audio'.pc = "lock") => audio'.idx = audio.idx + 1
          /\ (audio.pc = "calc" /\ audio'.pc = "idle") => audio.idx = Len(plan)
          /\ (audio.pc # "idle" /\ audio'.pc # "idle") => plan' = plan]_vars

\* calc of the second element of the plan runs while the control thread
\* renders the other module
C35_Witness ==
    /\ audio.pc = "calc"
    /\ audio.idx = 2
    /\ ui.pc = "render"
    /\ modules[ui.j] # Current
    /\ locks[modules[ui.j]].w = "ui"

----------------------------------------------------------------------------
(* Specification SpecPorts: one module of any kind, called through the     *)
(* SynthModule trait with port indices in and out of range.                *)

\* largest port index passed to a call
MaxPort == 4

\* the module called, and the module whose output is wired into it
Callee == 1
Feeder == 2

\* get_input: OutputModule compares idx > len, the other kinds match on the
\* index or compare idx < len; indexing a boxed slice at len panics
get_input(slots, k, idx) ==
    IF k = "Output"
    THEN IF idx > get_num_inputs(k) THEN "Err"
         ELSE IF idx \in DOMAIN slots THEN "Ok" ELSE "panic"
    ELSE IF idx < get_num_inputs(k) THEN "Ok" ELSE "Err"

\* the calls kept in hist: the last n
Keep(h, n) == IF Len(h) > n THEN Tail(h) ELSE h

InitPorts ==
    /\ \E k \in Kinds :
        kind = [h \in Handles |-> CASE h = Callee -> k [] h = Feeder -> "VCA" [] OTHER -> "Free"]
    /\ id = [h \in Handles |-> IF h <= 2 THEN h ELSE 0]
    /\ inputs = [h \in Handles |-> NewInputs(kind[h])]
    /\ modules = <<>>
    /\ plan = <<>>
    /\ output = NoHandle
    /\ pst = IdlePst
    /\ ws = IdleWs
    /\ locks = IdleLocks
    /\ audio = IdleAudio
    /\ ui = IdleUi
    /\ UnitIdle

CallGetInput ==
    /\ call.res # "panic"
    /\ \E idx \in 0..MaxPort :
        call' = [op |-> "get_input", idx |-> idx, res |-> get_input(inputs[Callee], kind[Callee], idx)]
    /\ UNCHANGED <<kind, id, inputs, modules, plan, output, pst, ws, locks, audio, ui, hist, td, smp, sequencer, bufs, dspvars>>

CallGetOutput ==
    /\ call.res # "panic"
    /\ \E idx \in 0..MaxPort :
        call' = [op |-> "get_output", idx |-> idx, res |-> get_output(kind[Callee], idx)]
    /\ UNCHANGED <<kind, id, inputs, modules, plan, output, pst, ws, locks, audio, ui, hist, td, smp, sequencer, bufs, dspvars>>

\* set_input called with any index and either output port of the feeder;
\* hist keeps the last n calls that write the slots
SetInputCall(n) ==
    /\ call.res # "panic"
    /\ \E idx \in 0..MaxPort, src_port \in 0..1 :
       \E r \in {set_input(inputs[Callee], kind[Callee], idx, Feeder, src_port)} :
        /\ inputs' = [inputs EXCEPT ![Callee] = r.slots]
        /\ call' = [op |-> "set_input", idx |-> idx, res |-> IF r.ok THEN "Ok" ELSE "Err"]
        /\ hist' = Keep(Append(hist, [op |-> "set_input", idx |-> idx, ok |-> r.ok,
                                      src |-> <<Feeder, src_port>>,
                                      before |-> inputs[Callee], after |-> r.slots]), n)
    /\ UNCHANGED <<kind, id, modules, plan, output, pst, ws, locks, audio, ui, td, smp, sequencer, bufs, dspvars>>

\* disconnect_input called with any index
DisconnectInputCall(n) ==
    /\ call.res # "panic"
    /\ \E idx \in 0..MaxPort :
       \E r \in {disconnect_input(inputs[Callee], kind[Callee], idx)} :
        /\ inputs' = [inputs EXCEPT ![Callee] = r.slots]
        /\ call' = [op |-> "disconnect_input", idx |-> idx, res |-> IF r.ok THEN "Ok" ELSE "Err"]
        /\ hist' = Keep(Append(hist, [op |-> "disconnect_input", idx |-> idx, ok |-> r.ok,
                                      src |-> None,
                                      before |-> inputs[Callee], after |-> r.slots]), n)
    /\ UNCHANGED <<kind, id, modules, plan, output, pst, ws, locks, audio, ui, td, smp, sequencer, bufs, dspvars>>

CallSetInput == SetInputCall(1)
CallDisconnectInput == DisconnectInputCall(1)

NextPorts == CallGetInput \/ CallGetOutput \/ CallSetInput \/ CallDisconnectInput

SpecPorts == InitPorts /\ [][NextPorts]_vars

----------------------------------------------------------------------------
(* Properties of the port calls *)

\* C11: a call with an input index >= num_inputs returns an error without
\* panicking and leaves the input slots as they were; get_output with an
\* index >= num_outputs returns an error.
C11_OutOfRangeIsError ==
    /\ (call.op \in {"get_input", "set_input", "disconnect_input"}
        /\ call.idx >= get_num_inputs(kind[Callee])) => call.res = "Err"
    /\ (call.op \in {"set_input", "disconnect_input"}
        /\ call.idx >= get_num_inputs(kind[Callee]))
            => hist[Len(hist)].after = hist[Len(hist)].before
    /\ (call.op = "get_output" /\ call.idx >= get_num_outputs(kind[Callee])) => call.res = "Err"

----------------------------------------------------------------------------
(* Specification SpecSlots: sequences of set_input and disconnect_input on *)
(* one module, the last three calls kept                                   *)

\* kinds of the module called
SlotKinds == {"Output", "VCA"}

InitSlots ==
    /\ \E k \in SlotKinds :
        kind = [h \in Handles |-> CASE h = Callee -> k [] h = Feeder -> "VCA" [] OTHER -> "Free"]
    /\ id = [h \in Handles |-> IF h <= 2 THEN h ELSE 0]
    /\ inputs = [h \in Handles |-> NewInputs(kind[h])]
    /\ modules = <<>>
    /\ plan = <<>>
    /\ output = NoHandle
    /\ pst = IdlePst
    /\ ws = IdleWs
    /\ locks = IdleLocks
    /\ audio = IdleAudio
    /\ ui = IdleUi
    /\ UnitIdle

SlotSetInput == SetInputCall(3)
SlotDisconnectInput == DisconnectInputCall(3)

NextSlots == SlotSetInput \/ SlotDisconnectInput

SpecSlots == InitSlots /\ [][NextSlots]_vars

\* C20: on a valid input index i, two disconnect_input(i) in a row both
\* succeed and each leaves slot i empty; set_input(i, s, p), disconnect_input(i),
\* set_input(i, s, p) in a row leave the input slots as they were after the
\* first of the three calls.
C20_DisconnectIdempotent ==
    /\ \A n \in 2..Len(hist) :
          (/\ hist[n - 1].op = "disconnect_input" /\ hist[n].op = "disconnect_input"
           /\ hist[n - 1].idx = hist[n].idx
           /\ hist[n].idx < get_num_inputs(kind[Callee]))
              => /\ hist[n - 1].ok /\ hist[n].ok
                 /\ hist[n - 1].after[hist[n].idx] = None
                 /\ hist[n].after[hist[n].idx] = None
    /\ (/\ Len(hist) = 3
        /\ hist[1].op = "set_input" /\ hist[2].op = "disconnect_input" /\ hist[3].op = "set_input"
        /\ hist[1].idx = hist[2].idx /\ hist[2].idx = hist[3].idx
        /\ hist[1].src = hist[3].src
        /\ hist[1].idx < get_num_inputs(kind[Callee]))
            => /\ hist[1].ok /\ hist[2].ok /\ hist[3].ok
               /\ hist[3].after = hist[1].after

\* set_input, disconnect_input, set_input were called on a slot of a module
\* that has another slot connected to a different port
C20_Witness ==
    /\ Len(hist) = 3
    /\ hist[1].op = "set_input" /\ hist[2].op = "disconnect_input" /\ hist[3].op = "set_input"
    /\ hist[1].idx = hist[2].idx /\ hist[2].idx = hist[3].idx
    /\ hist[1].src = hist[3].src
    /\ hist[1].idx < get_num_inputs(kind[Callee])
    /\ \E j \in DOMAIN hist[3].after :
          j # hist[1].idx /\ hist[3].after[j] \notin {None, hist[1].src}

----------------------------------------------------------------------------
(* Specification SpecTD: a TransitionDetector fed any samples *)

\* an empty workspace with idle threads
WorkspaceIdle ==
    /\ kind = [h \in Handles |-> "Free"]
    /\ id = [h \in Handles |-> 0]
    /\ inputs = [h \in Handles |-> NewInputs("Free")]
    /\ modules = <<>>
    /\ plan = <<>>
    /\ output = NoHandle
    /\ pst = IdlePst
    /\ ws = IdleWs
    /\ locks = IdleLocks
    /\ audio = IdleAudio
    /\ ui = IdleUi

\* samples fed in one run
MaxFeed == 5

\* ControlVoltage (f32) values in tenths; NaN stands for a not-a-number
NaN == 99
Voltages == {-1, 0, 1, 5, NaN}

\* f32 comparison: every comparison with a NaN is false
Gt(x, y) == x # NaN /\ y # NaN /\ x > y
Le(x, y) == x # NaN /\ y # NaN /\ x <= y

\* variant of is_above_threshold that counts 0.0 as above
is_above_threshold_Inclusive(val) == val # NaN /\ val >= 0

\* is_above_threshold: *val > 0.0
is_above_threshold(val) == Gt(val, 0)

\* variant of is_transition that forgets to store the level
is_transition_KeepLast(d, val) ==
    [last |-> d.last, ret |-> is_above_threshold(val) /\ ~d.last]

\* is_transition: the answer and the stored level
is_transition(d, val) ==
    [last |-> is_above_threshold(val), ret |-> is_above_threshold(val) /\ ~d.last]

InitTD == WorkspaceIdle /\ UnitIdle

Feed ==
    /\ Len(td.fed) < MaxFeed
    /\ \E val \in Voltages : \E r \in {is_transition(td, val)} :
        td' = [last |-> r.last, fed |-> Append(td.fed, val), out |-> Append(td.out, r.ret)]
    /\ UNCHANGED <<wsvars, call, hist, smp, sequencer, bufs, dspvars>>

NextTD == Feed

SpecTD == InitTD /\ [][NextTD]_vars

----------------------------------------------------------------------------
(* Properties of the TransitionDetector *)

\* C13 as stated: a fresh detector fed 0.0, 0.1, 0.1, 0.0, 0.5 answers
\* false, false, false, false, true.
C13_ExampleAsStated ==
    td.fed = <<0, 1, 1, 0, 5>> => td.out = <<FALSE, FALSE, FALSE, FALSE, TRUE>>

\* C13 amended: a fresh detector fed 0.0, 0.1, 0.1, 0.0, 0.5 answers
\* false, true, false, false, true (the rise from 0.0 to 0.1 is a transition).
C13_Example ==
    td.fed = <<0, 1, 1, 0, 5>> => td.out = <<FALSE, TRUE, FALSE, FALSE, TRUE>>

\* the five samples of the example have been fed
C13_Witness == td.fed = <<0, 1, 1, 0, 5>> /\ Len(td.out) = 5

----------------------------------------------------------------------------
(* Specification SpecSample: SampleModule::calc on the audio thread while   *)
(* the task started by "Load Sample..." loads files into the WaveBox.       *)
(* Buffer and device run at the same sample rate and the cv input is       *)
(* unconnected, so a playing sample advances by one per output sample.     *)

\* AudioConfig.buffer_size, scaled down
buffer_size == 2

\* length of the long file
SampleLen == 100

\* wav files the user picks: an impulse (1.0, then zeros), a short file, and
\* a file hound cannot decode
Impulse == [n \in 1..SampleLen |-> IF n = 1 THEN 10 ELSE 0]
Short == <<5, 3>>
Broken == <<NaN>>
WavFiles == {Impulse, Short, Broken}

\* gate levels of a sample: low and high
Gates == {0, 1}

InitSample == WorkspaceIdle /\ UnitIdle

\* variant of SkipBlock that leaves the transition detector alone
SkipBlock_NoFeed(m, gate) ==
    [m EXCEPT !.out = 0, !.fed = gate, !.since = -1]

\* calc when try_lock fails: the detector is fed the last gate sample of the
\* block, the block is filled with zeros, calc returns
SkipBlock(m, gate) ==
    [m EXCEPT !.last = is_transition([last |-> m.last], gate).last,
              !.out = 0, !.fed = gate, !.since = -1]

\* variant of AdoptNew that keeps the position of the old buffer
AdoptNew_KeepPos(m) ==
    [m EXCEPT !.lock = "audio", !.pc = "block", !.idx = 0, !.fed = -1,
              !.new = FALSE,
              !.since = IF m.new THEN -1 ELSE @,
              !.adopted = IF m.new THEN 0 ELSE IF @ \in 0..1 THEN @ + 1 ELSE @]

\* calc once try_lock succeeded, up to the loop: a new buffer is adopted.
\* adopted counts the blocks begun since the last adoption
AdoptNew(m) ==
    [m EXCEPT !.lock = "audio", !.pc = "block", !.idx = 0, !.fed = -1,
              !.pos = IF m.new THEN 0 ELSE @,
              !.playing = IF m.new THEN FALSE ELSE @,
              !.new = FALSE,
              !.since = IF m.new THEN -1 ELSE @,
              !.adopted = IF m.new THEN 0 ELSE IF @ \in 0..1 THEN @ + 1 ELSE @]

\* calc, up to the loop: try_lock fails while the load task holds the mutex
\* or after it was poisoned
CalcBegin ==
    /\ smp.pc = "idle"
    /\ IF smp.lock # "none"
       THEN \E gate \in Gates : smp' = SkipBlock(smp, gate)
       ELSE smp' = AdoptNew(smp)
    /\ UNCHANGED <<wsvars, call, hist, td, sequencer, bufs, dspvars>>

\* one iteration of the loop over the output block
SampleStep(m, gate) ==
    LET t == is_transition([last |-> m.last], gate)
        pos1 == IF t.ret THEN 0 ELSE m.pos
        playing1 == IF t.ret THEN TRUE ELSE m.playing
        over == pos1 >= Len(m.samples)
        pos2 == IF over THEN 0 ELSE pos1
        playing2 == IF over THEN FALSE ELSE playing1
    IN [m EXCEPT !.last = t.last,
                 !.out = IF Len(m.samples) > 0 THEN m.samples[pos2 + 1] ELSE 0,
                 !.pos = IF playing2 THEN pos2 + 1 ELSE pos2,
                 !.playing = playing2,
                 !.idx = @ + 1,
                 !.since = IF t.ret THEN 0
                           ELSE IF @ >= 0 /\ @ < Len(m.samples) THEN @ + 1 ELSE -1]

CalcSample ==
    /\ smp.pc = "block"
    /\ smp.idx < buffer_size
    /\ \E gate \in Gates : smp' = SampleStep(smp, gate)
    /\ UNCHANGED <<wsvars, call, hist, td, sequencer, bufs, dspvars>>

\* the closure returns: the MutexGuard is dropped
CalcEnd ==
    /\ smp.pc = "block"
    /\ smp.idx = buffer_size
    /\ smp' = [smp EXCEPT !.pc = "idle", !.lock = "none", !.idx = 0]
    /\ UNCHANGED <<wsvars, call, hist, td, sequencer, bufs, dspvars>>

\* the load task: wavebox.lock().unwrap() once the file is read
LoadLock ==
    /\ smp.file = <<>>
    /\ smp.lock = "none"
    /\ \E f \in WavFiles : smp' = [smp EXCEPT !.lock = "loader", !.file = f]
    /\ UNCHANGED <<wsvars, call, hist, td, sequencer, bufs, dspvars>>

\* WaveBox::load and the drop of the guard.  A file that does not parse
\* returns early; an unsupported sample width returns after samples.clear();
\* a sample that does not decode panics in unwrap and poisons the mutex.
LoadEnd ==
    /\ smp.lock = "loader"
    /\ \/ /\ smp.file # Broken
          /\ smp' = [smp EXCEPT !.samples = smp.file, !.new = TRUE,
                                !.lock = "none", !.file = <<>>, !.since = -1]
       \/ /\ smp.file = Broken
          /\ \/ smp' = [smp EXCEPT !.lock = "none", !.file = <<>>, !.since = -1]
             \/ smp' = [smp EXCEPT !.samples = <<>>, !.lock = "none", !.file = <<>>, !.since = -1]
             \/ smp' = [smp EXCEPT !.samples = <<>>, !.lock = "poisoned", !.file = <<>>, !.since = -1]
    /\ UNCHANGED <<wsvars, call, hist, td, sequencer, bufs, dspvars>>

NextSample == CalcBegin \/ CalcSample \/ CalcEnd \/ LoadLock \/ LoadEnd

SpecSample == InitSample /\ [][NextSample]_vars

----------------------------------------------------------------------------
(* Properties of the sample player *)

\* C15: with the impulse loaded, k samples after the sample on which the gate
\* rose the output is buffer[k] for k < len; on the len-th sample after the
\* rise the output is 0 and playing is false.
C15_PlaysOnceThenSilent ==
    (smp.samples = Impulse /\ smp.since >= 0) =>
        IF smp.since < SampleLen
        THEN smp.out = Impulse[smp.since + 1]
        ELSE smp.out = 0 /\ ~smp.playing

----------------------------------------------------------------------------
(* Specification SpecSeq: GridSequencerModule::calc, one sample at a time.  *)
(* cv_out is counted in grid rows: a value of r stands for                 *)
(* r * (1 / steps_per_octave) volts.                                       *)

\* number of cells of the sequence, scaled down from 64
Steps == 6

\* rising edges of step_in that are followed
MaxEdges == 6

\* GridSequencerModule::new
steps_per_octave == 12

\* sequences the user has clicked together: the cells (row 0), (row 12),
\* empty, (row 7) followed by empty cells, gated or held, the same four cells
\* after the sequence was halved down to four steps, and the fresh grid
FourCells(hold) ==
    [n \in 1..Steps |->
        CASE n = 1 -> <<0, hold>>
          [] n = 2 -> <<steps_per_octave, hold>>
          [] n = 4 -> <<7, hold>>
          [] OTHER -> None]
GatedCells == FourCells(FALSE)
HeldCells == FourCells(TRUE)
HalvedCells == SubSeq(GatedCells, 1, 4)
FreshCells == [n \in 1..Steps |-> None]
Grids == {GatedCells, HeldCells, HalvedCells, FreshCells}

\* GridSequencerModule::new, with the cells set through the grid
NewSequencer(cells) ==
    [NoSequencer EXCEPT !.sequence = cells, !.prev = -1, !.first = -1, !.sync_prev = -1]

InitSeq ==
    /\ WorkspaceIdle
    /\ call = NoCall /\ hist = <<>> /\ td = NewDetector /\ smp = NewSample /\ bufs = NoBufs
    /\ DspIdle
    /\ \E cells \in Grids : sequencer = NewSequencer(cells)

\* variant of Advance where a rising step_in wins over a rising sync_in
Advance_StepWins(s, step_rose, sync_rose) ==
    IF step_rose THEN s.current_step + 1 ELSE IF sync_rose THEN 0 ELSE s.current_step

\* calc, the two transition tests: current_step += 1 on a transition of
\* step_in, then current_step = 0 on a transition of sync_in
Advance(s, step_rose, sync_rose) ==
    IF sync_rose THEN 0 ELSE IF step_rose THEN s.current_step + 1 ELSE s.current_step

\* variant of WrapStep that wraps one step late
WrapStep_Late(s, step) == IF step > Len(s.sequence) THEN 0 ELSE step

\* calc, if current_step >= self.sequence.len()
WrapStep(s, step) == IF step >= Len(s.sequence) THEN 0 ELSE step

\* variant of Emit whose gate is high on every cell that is on
Emit_GateHigh(s, cell, step_in, current_step) ==
    [cv_out |-> IF cell = None THEN s.last ELSE cell[1],
     gate_out |-> IF cell = None THEN 0 ELSE 1,
     sync_out |-> IF current_step = 0 THEN 1 ELSE 0]

\* calc, the three values written at idx
Emit(s, cell, step_in, current_step) ==
    [cv_out |-> IF cell = None THEN s.last ELSE cell[1],
     gate_out |-> IF cell = None THEN 0 ELSE IF cell[2] THEN 1 ELSE step_in,
     sync_out |-> IF current_step = 0 THEN 1 ELSE 0]

\* what a sample leaves behind whatever the cell is: the step, the two
\* detectors, the position in the block.  edges counts the low-to-high changes
\* of step_in itself, first is the first sample of step_in, prev and sync_prev
\* are the samples read last, synced tells that sync_in reset the step, shrunk
\* that the sample found current_step at or beyond the end of the sequence,
\* rose what the two detectors answered
Seen(s, step_in, sync_in, t1, t2, current_step) ==
    [s EXCEPT !.current_step = current_step,
              !.transition_detector = t1.last,
              !.sync_transition_detector = t2.last,
              !.idx = (@ + 1) % buffer_size,
              !.shrunk = s.current_step >= Len(s.sequence),
              !.edges = IF s.prev = 0 /\ step_in > 0 THEN @ + 1 ELSE @,
              !.synced = @ \/ t2.ret,
              !.first = IF @ = -1 THEN step_in ELSE @,
              !.prev = step_in,
              !.sync_prev = sync_in,
              !.rose = <<t1.ret, t2.ret>>]

\* variant of SequencerStep that plays silence on an empty cell
SequencerStep_NoHold(s, step_in, sync_in) ==
    LET t1 == is_transition([last |-> s.transition_detector], step_in)
        t2 == is_transition([last |-> s.sync_transition_detector], sync_in)
        current_step == WrapStep(s, Advance(s, t1.ret, t2.ret))
        seen == Seen(s, step_in, sync_in, t1, t2, current_step)
    IN IF current_step >= Len(s.sequence) THEN seen
       ELSE LET o == Emit(s, s.sequence[current_step + 1], step_in, current_step)
                cv == IF s.sequence[current_step + 1] = None THEN 0 ELSE o.cv_out
            IN [seen EXCEPT !.cv_out = cv, !.gate_out = o.gate_out,
                            !.sync_out = o.sync_out, !.last = cv]

\* calc, body of the loop over the block: one sample of step_in and sync_in.
\* An index beyond the sequence panics before anything is written at idx.
SequencerStep(s, step_in, sync_in) ==
    LET t1 == is_transition([last |-> s.transition_detector], step_in)
        t2 == is_transition([last |-> s.sync_transition_detector], sync_in)
        current_step == WrapStep(s, Advance(s, t1.ret, t2.ret))
        seen == Seen(s, step_in, sync_in, t1, t2, current_step)
    IN IF current_step >= Len(s.sequence) THEN seen
       ELSE LET o == Emit(s, s.sequence[current_step + 1], step_in, current_step)
            IN [seen EXCEPT !.cv_out = o.cv_out, !.gate_out = o.gate_out,
                            !.sync_out = o.sync_out, !.last = o.cv_out]

SeqSample ==
    /\ sequencer.edges < MaxEdges
    /\ \E step_in, sync_in \in Gates :
          sequencer' = SequencerStep(sequencer, step_in, sync_in)
    /\ UNCHANGED <<wsvars, call, hist, td, smp, bufs, dspvars>>

NextSeq == SeqSample

SpecSeq == InitSeq /\ [][NextSeq]_vars

\* the case of the example: the four cells on a grid of more than four steps,
\* step_in starting low, sync_in never resetting the step
FourCellsPlayed ==
    /\ sequencer.sequence \in {GatedCells, HeldCells}
    /\ sequencer.first = 0
    /\ ~sequencer.synced

\* C16 as stated: after the first, second, third and fourth rising edge of
\* step_in, cv_out is 0, 1.0, 1.0 (held) and 7/12 volts
C16_CvAsStated ==
    (FourCellsPlayed /\ sequencer.edges \in 1..4)
        => sequencer.cv_out = <<0, steps_per_octave, steps_per_octave, 7>>[sequencer.edges]

\* C16 amended: cv_out is 0 until the first rising edge of step_in (cell 0
\* plays before any edge); after the first, second, third and fourth rising
\* edge it is 1.0, 1.0 (held over the empty cell), 7/12 and 7/12 (held over
\* the empty fifth cell) volts
C16_Cv ==
    (FourCellsPlayed /\ sequencer.edges \in 0..4)
        => sequencer.cv_out =
              <<0, steps_per_octave, steps_per_octave, 7, 7>>[sequencer.edges + 1]

\* the fourth rising edge has been played on the four cells
C16_Witness ==
    /\ FourCellsPlayed
    /\ sequencer.edges = 4
    /\ sequencer.current_step = 4

C30_Outputs ==
    [][sequencer' # sequencer =>
          LET cell == sequencer'.sequence[sequencer'.current_step + 1]
          IN /\ sequencer'.gate_out =
                   IF cell = None THEN 0 ELSE IF cell[2] THEN 1 ELSE sequencer'.prev
             /\ sequencer'.sync_out = IF sequencer'.current_step = 0 THEN 1 ELSE 0
             /\ sequencer'.cv_out = IF cell = None THEN sequencer.cv_out ELSE cell[1]]_vars

\* the first sample of a later block falls on the empty third cell and holds
\* the octave played by the second cell
C30_Witness ==
    /\ sequencer.sequence = GatedCells
    /\ sequencer.idx = 1
    /\ sequencer.edges = 2
    /\ sequencer.current_step = 2
    /\ sequencer.cv_out = steps_per_octave
    /\ sequencer.gate_out = 0
    /\ sequencer.sync_out = 0

----------------------------------------------------------------------------
(* Specification SpecSteps: calc of the sequencer and the step-count       *)
(* buttons of its panel, pressed between blocks.  The pattern sequencer     *)
(* runs the same statements on sequence[0]; its one-channel view is a grid  *)
(* of row 0.  The sequence of a new module has Steps cells, the most the    *)
(* buttons allow.                                                           *)

\* Vec::resize(new_len, None)
ResizeCells(cells, n) ==
    [k \in 1..n |-> IF k <= Len(cells) THEN cells[k] ELSE None]

\* a button was clicked: the sequence is resized under the module lock, which
\* calc holds for the whole block
Clicked(n) ==
    /\ sequencer.idx = 0
    /\ sequencer' = [sequencer EXCEPT !.sequence = ResizeCells(@, n), !.shrunk = FALSE]
    /\ UNCHANGED <<wsvars, call, hist, td, smp, bufs, dspvars>>

\* ui: the scope of "/2" is disabled when len % 2 == 1 && len <= 2
HalveEnabled(len) == ~(len % 2 = 1 /\ len <= 2)

\* "/2"
HalveSteps ==
    /\ HalveEnabled(Len(sequencer.sequence))
    /\ Clicked(Len(sequencer.sequence) \div 2)

\* "-": disabled when len <= 2
FewerSteps ==
    /\ ~(Len(sequencer.sequence) <= 2)
    /\ Clicked(Len(sequencer.sequence) - 1)

\* "+": disabled when len >= 64
MoreSteps ==
    /\ ~(Len(sequencer.sequence) >= Steps)
    /\ Clicked(Len(sequencer.sequence) + 1)

\* "x2": disabled when len > 32
DoubleSteps ==
    /\ ~(Len(sequencer.sequence) > Steps \div 2)
    /\ Clicked(Len(sequencer.sequence) * 2)

NextSteps == SeqSample \/ HalveSteps \/ FewerSteps \/ MoreSteps \/ DoubleSteps

SpecSteps == InitSeq /\ [][NextSteps]_vars

\* C27: after every sample processed by calc, current_step is smaller than
\* the length of the sequence (the index just used is in range); a sample
\* that finds current_step at or beyond the end of the sequence, as a shrink
\* between blocks leaves it, is the first of its block and sets the step to 0.
C27_StepInRange ==
    [][sequencer'.idx # sequencer.idx =>
          /\ sequencer'.current_step < Len(sequencer'.sequence)
          /\ sequencer.current_step >= Len(sequencer.sequence)
                => (sequencer.idx = 0 /\ sequencer'.current_step = 0)]_vars

\* the sequence was shrunk to the step or below while step_in was low, and
\* the rising edge on the first sample of the next block played step 0
C27_Witness ==
    /\ sequencer.shrunk
    /\ sequencer.rose[1]
    /\ ~sequencer.synced
    /\ sequencer.current_step = 0
    /\ sequencer.idx = 1

\* C28: whatever step-count buttons are clicked while enabled, the length of
\* the sequence stays between 2 and the length of a new sequence.
C28_LengthInRange ==
    Len(sequencer.sequence) \in 2..Steps

\* C17: calc never waits for the mutex of the WaveBox.  Whatever holds the
\* mutex, calc can run; a block computed while try_lock fails is all zero,
\* has fed its last gate sample to the transition detector, has returned, and
\* has not taken the mutex.
C17_NeverWaits ==
    /\ smp.pc = "idle" => ENABLED CalcBegin
    /\ smp.fed # -1 =>
          /\ smp.out = 0
          /\ smp.pc = "idle"
          /\ smp.last = is_above_threshold(smp.fed)
          /\ smp.lock # "audio"

\* a block was skipped, gate high, while the load task held the mutex
C17_Witness ==
    /\ smp.lock = "loader"
    /\ smp.fed = 1
    /\ smp.last

\* C18: the calc that takes the mutex with new = true starts its block with
\* pos = 0, playing = false and new = false; a calc that takes it with
\* new = false starts its block with pos and playing as they were; no sample
\* is computed while new = true.
C18_AdoptOnce ==
    [][/\ (smp.pc = "idle" /\ smp'.pc = "block") =>
             IF smp.new
             THEN smp'.pos = 0 /\ ~smp'.playing /\ ~smp'.new
             ELSE smp'.pos = smp.pos /\ smp'.playing = smp.playing /\ ~smp'.new
       /\ smp'.pc = "block" => ~smp'.new]_vars

\* a buffer was adopted, and the block after the adopting one started in the
\* middle of the buffer
C18_Witness ==
    /\ smp.adopted = 1
    /\ smp.pc = "block"
    /\ smp.idx = 0
    /\ smp.playing
    /\ smp.pos > 0

----------------------------------------------------------------------------
(* Specification SpecOut: a workspace of two VCAs and the Output, edited    *)
(* through the ui between the blocks the audio callback executes.  A       *)
(* block is followed as a whole; what a module other than the Output       *)
(* computes is not followed: its calc writes some block.                   *)

\* blocks of buffer_size samples: silence and a constant level
Silence == [n \in 1..buffer_size |-> 0]
Level == [n \in 1..buffer_size |-> 5]
Blocks == {Silence, Level}

\* AudioBuffer::new(Some(buffer_size)) for every output port of a module,
\* and for every channel of the Output
NewBufs(k) ==
    [p \in 1..(IF k = "Output" THEN channels ELSE get_num_outputs(k)) |-> Silence]

InitOut ==
    /\ kind = [h \in Handles |-> CASE h \in {1, 2} -> "VCA" [] h = 3 -> "Output" [] OTHER -> "Free"]
    /\ id = [h \in Handles |-> IF h <= 3 THEN h ELSE 0]
    /\ inputs = [h \in Handles |-> NewInputs(kind[h])]
    /\ modules = <<1, 2, 3>>
    /\ plan = <<3>>
    /\ output = 3
    /\ pst = IdlePst
    /\ ws = IdleWs
    /\ locks = IdleLocks
    /\ audio = IdleAudio
    /\ ui = IdleUi
    /\ call = NoCall /\ hist = <<>> /\ td = NewDetector /\ smp = NewSample
    /\ sequencer = NoSequencer
    /\ DspIdle
    /\ bufs = [i \in Handles |-> NewBufs(kind[i])]

\* variant of calc in which the Output leaves the buffer of an unconnected
\* channel as it was
calc_KeepUnconnected(k, i, inp, b, h, fresh) ==
    IF k[h] = "Output"
    THEN [b EXCEPT ![i[h]] =
            [c \in 1..channels |->
                IF inp[h][c - 1] = None THEN b[i[h]][c]
                ELSE b[i[inp[h][c - 1][1]]][inp[h][c - 1][2] + 1]]]
    ELSE [b EXCEPT ![i[h]] = [p \in DOMAIN @ |-> fresh[h]]]

\* calc of module h.  OutputModule::calc: every channel buffer becomes a copy
\* of the buffer behind its input, or zeros when the input is unconnected
calc(k, i, inp, b, h, fresh) ==
    IF k[h] = "Output"
    THEN [b EXCEPT ![i[h]] =
            [c \in 1..channels |->
                IF inp[h][c - 1] = None THEN Silence
                ELSE b[i[inp[h][c - 1][1]]][inp[h][c - 1][2] + 1]]]
    ELSE [b EXCEPT ![i[h]] = [p \in DOMAIN @ |-> fresh[h]]]

\* execute: calc of every module of the plan, in plan order
RECURSIVE execute(_, _, _, _, _, _)
execute(k, i, inp, b, pl, fresh) ==
    IF pl = <<>> THEN b
    ELSE execute(k, i, inp, calc(k, i, inp, b, Head(pl), fresh), Tail(pl), fresh)

\* every resolve_input of the plan's modules returns: an input wired to the
\* module itself or to a port its source does not have ends the callback
BlockCompletes ==
    \A h \in Range(plan) : \A n \in DOMAIN inputs[h] :
        /\ resolve_input(kind, inputs, h, n) = "Ok"
        /\ inputs[h][n] # None => inputs[h][n][1] # h

\* the audio callback executes one block
RunBlock ==
    /\ BlockCompletes
    /\ \E fresh \in [Range(plan) -> Blocks] :
          bufs' = execute(kind, id, inputs, bufs, plan, fresh)
    /\ ws' = [ws EXCEPT !.op = IF @ = "delete" THEN "delete+block" ELSE "block"]
    /\ UNCHANGED <<kind, id, inputs, modules, plan, output, pst, locks, audio, ui,
                   call, hist, td, smp, sequencer, dspvars>>

NextOut == Connect \/ Disconnect \/ DeleteModule \/ RunBlock

SpecOut == InitOut /\ [][NextOut]_vars

\* the module delete_module removed was, before, the only one wired into the
\* Output
FedOnlyByDeleted ==
    /\ \E c \in ws.pre_conns : c[3] = id[output]
    /\ \A c \in ws.pre_conns :
          c[3] = id[output] => c[1] \in ws.pre_ids \ IdsOf(id, modules)

\* C19: when a block has been executed, every channel buffer of the Output
\* equals the buffer of the port wired to the channel's input, and is all
\* zero when that input is unconnected; when the block follows a
\* delete_module of the only module wired into the Output, the Output's
\* inputs are empty, the deleted module is not in the plan, and every
\* channel buffer is all zero.
C19_OutputCopiesOrZeros ==
    ws.op \in {"block", "delete+block"} =>
        /\ \A c \in 0..(channels - 1) :
              bufs[id[output]][c + 1] =
                  IF inputs[output][c] = None THEN Silence
                  ELSE bufs[id[inputs[output][c][1]]][inputs[output][c][2] + 1]
        /\ (ws.op = "delete+block" /\ FedOnlyByDeleted) =>
              /\ \A c \in 0..(channels - 1) : inputs[output][c] = None
              /\ \A h \in Range(plan) : id[h] \in IdsOf(id, modules)
              /\ \A c \in 1..channels : bufs[id[output]][c] = Silence

\* a block ran right after the only module wired into the Output was
\* deleted, and the deleted module's buffer still holds a block that is not
\* silent
C19_Witness ==
    /\ ws.op = "delete+block"
    /\ FedOnlyByDeleted
    /\ \E i \in ws.pre_ids \ IdsOf(id, modules) : bufs[i] = <<Level>>

----------------------------------------------------------------------------
(* Specification SpecVCA: a VCAModule whose inputs are wired and unwired    *)
(* between its calc calls.  Samples are integers, products are exact.      *)

\* samples of the blocks behind the inputs
VcaSamples == {-2, 3, NaN}
VcaBlocks == [1..buffer_size -> VcaSamples]

\* f32 multiplication: a NaN operand gives NaN
Mul(x, y) == IF x = NaN \/ y = NaN THEN NaN ELSE x * y

\* VCAModule::new, or a VCA read from a file, where negative may be set;
\* current tells that buf was written by calc with the present wiring
NewVCA(negative) ==
    [audio_in |-> None, cv_in |-> None, negative |-> negative,
     buf |-> [n \in 1..buffer_size |-> 0], current |-> FALSE]

InitVCA ==
    /\ WorkspaceIdle
    /\ call = NoCall /\ hist = <<>> /\ td = NewDetector /\ smp = NewSample
    /\ sequencer = NoSequencer /\ bufs = NoBufs
    /\ osc = NotBuilt /\ moog = NotBuilt /\ abuf = NotBuilt
    /\ adsr = NotBuilt /\ rt = NotBuilt
    /\ \E negative \in BOOLEAN : vca = NewVCA(negative)

\* variant of vca_calc that multiplies whatever the sign of cv
vca_calc_NoGate(m) ==
    IF m.audio_in # None /\ m.cv_in # None
    THEN [n \in 1..buffer_size |-> Mul(m.audio_in[n], m.cv_in[n])]
    ELSE [n \in 1..buffer_size |-> 0]

\* VCAModule::calc: the block written to buf
vca_calc(m) ==
    IF m.audio_in # None /\ m.cv_in # None
    THEN [n \in 1..buffer_size |->
            IF m.negative \/ Gt(m.cv_in[n], 0)
            THEN Mul(m.audio_in[n], m.cv_in[n])
            ELSE 0]
    ELSE [n \in 1..buffer_size |-> 0]

\* the audio input is wired to a port whose buffer holds block b, or unwired
WireAudio ==
    /\ \E b \in VcaBlocks \cup {None} : vca' = [vca EXCEPT !.audio_in = b, !.current = FALSE]
    /\ UNCHANGED <<wsvars, call, hist, td, smp, sequencer, bufs, osc, moog, abuf, adsr, rt>>

\* the cv input is wired to a port whose buffer holds block b, or unwired
WireCv ==
    /\ \E b \in VcaBlocks \cup {None} : vca' = [vca EXCEPT !.cv_in = b, !.current = FALSE]
    /\ UNCHANGED <<wsvars, call, hist, td, smp, sequencer, bufs, osc, moog, abuf, adsr, rt>>

VcaCalc ==
    /\ vca' = [vca EXCEPT !.buf = vca_calc(vca), !.current = TRUE]
    /\ UNCHANGED <<wsvars, call, hist, td, smp, sequencer, bufs, osc, moog, abuf, adsr, rt>>

NextVCA == WireAudio \/ WireCv \/ VcaCalc

SpecVCA == InitVCA /\ [][NextVCA]_vars

\* C21: after calc the output block is all zero when the audio input or the
\* cv input is unconnected; with both connected, sample n is audio[n] * cv[n]
\* when cv[n] > 0 or the negative flag is set, and 0 otherwise.
C21_VcaOutput ==
    vca.current =>
        \A n \in 1..buffer_size :
            vca.buf[n] =
                IF vca.audio_in = None \/ vca.cv_in = None THEN 0
                ELSE IF vca.negative \/ (vca.cv_in[n] # NaN /\ vca.cv_in[n] > 0)
                THEN Mul(vca.audio_in[n], vca.cv_in[n])
                ELSE 0

\* calc ran with both inputs connected, the flag unset, and a block of cv
\* that is positive on one sample and negative on the other
C21_Witness ==
    /\ vca.current
    /\ ~vca.negative
    /\ vca.audio_in # None /\ vca.cv_in # None
    /\ \E n, k \in 1..buffer_size :
          /\ vca.cv_in[n] = 3 /\ vca.buf[n] # 0
          /\ vca.cv_in[k] = -2 /\ vca.audio_in[k] # NaN /\ vca.buf[k] = 0

----------------------------------------------------------------------------
(* Specification SpecOsc: an OscillatorModule at sample_rate 1760 with its  *)
(* cv input unconnected, computing block after block.  The phase pos is    *)
(* counted in eighths of a period, the sine output in thousandths.         *)

\* blocks computed by one oscillator
MaxBlocks == 4

\* pos is counted in units of 1 / Eighths
Eighths == 8

\* AudioConfig.buffer_size of the oscillator: the test's odd size among them
BlockSizes == {1, buffer_size, 17}

\* settings of the octave buttons
OscVals == {-1, 0, 1}

RECURSIVE Pow2(_)
Pow2(n) == IF n = 0 THEN 1 ELSE 2 * Pow2(n - 1)

\* get_freq_in_hz(None, i) / sample_rate, in eighths: 440 * 2^val / 1760
delta(val) == Pow2(val + 1)

\* (pos * PI * 2.0).sin(), in thousandths
sin(pos) == <<0, 707, 1000, 707, 0, -707, -1000, -707>>[pos + 1]

\* OscillatorModule::new, val set by the octave buttons; n counts the
\* samples computed, blocks the calc calls, synced tells that sync reset pos
NewOscillator(val, size) ==
    [val |-> val, size |-> size, pos |-> 0, sync_detector |-> TRUE,
     sine |-> [i \in 1..size |-> 0], n |-> 0, blocks |-> 0, synced |-> FALSE]

InitOsc ==
    /\ WorkspaceIdle
    /\ call = NoCall /\ hist = <<>> /\ td = NewDetector /\ smp = NewSample
    /\ sequencer = NoSequencer /\ bufs = NoBufs
    /\ vca = NotBuilt /\ moog = NotBuilt /\ abuf = NotBuilt
    /\ adsr = NotBuilt /\ rt = NotBuilt
    /\ \E val \in OscVals, size \in BlockSizes : osc = NewOscillator(val, size)

\* variant of osc_calc that starts every block at phase 0
RECURSIVE osc_calc_Restart(_, _, _)
osc_calc_Restart(m, sync_val, i) ==
    IF i > m.size THEN m
    ELSE LET t == is_transition([last |-> m.sync_detector], sync_val)
             pos == IF t.ret \/ i = 1 THEN 0 ELSE m.pos
         IN osc_calc_Restart([m EXCEPT !.sync_detector = t.last,
                                       !.sine[i] = sin(pos),
                                       !.pos = (pos + delta(m.val)) % Eighths,
                                       !.n = @ + 1,
                                       !.synced = @ \/ t.ret],
                             sync_val, i + 1)

\* calc, the loop from sample i on, sync input at level sync_val
RECURSIVE osc_calc(_, _, _)
osc_calc(m, sync_val, i) ==
    IF i > m.size THEN m
    ELSE LET t == is_transition([last |-> m.sync_detector], sync_val)
             pos == IF t.ret THEN 0 ELSE m.pos
         IN osc_calc([m EXCEPT !.sync_detector = t.last,
                               !.sine[i] = sin(pos),
                               !.pos = (pos + delta(m.val)) % Eighths,
                               !.n = @ + 1,
                               !.synced = @ \/ t.ret],
                     sync_val, i + 1)

\* one calc; the sync input is unconnected (0.0) or holds a level
OscCalc ==
    /\ osc.blocks < MaxBlocks
    /\ \E sync_val \in Gates :
          osc' = [osc_calc(osc, sync_val, 1) EXCEPT !.blocks = @ + 1]
    /\ UNCHANGED <<wsvars, call, hist, td, smp, sequencer, bufs, vca, moog, abuf, adsr, rt>>

NextOsc == OscCalc

SpecOsc == InitOsc /\ [][NextOsc]_vars

\* C22: as long as sync has not reset it, the phase after n samples in total
\* is n * freq / sample_rate mod 1, whatever the block size; at val = 0 with
\* blocks of 17 samples the first block starts 0, +1, 0, -1, 0 and the second
\* block starts +1.
C22_PhaseContinues ==
    ~osc.synced =>
        /\ osc.pos = (osc.n * delta(osc.val)) % Eighths
        /\ (osc.val = 0 /\ osc.size = 17 /\ osc.blocks = 1) =>
              SubSeq(osc.sine, 1, 5) = <<0, 1000, 0, -1000, 0>>
        /\ (osc.val = 0 /\ osc.size = 17 /\ osc.blocks = 2) => osc.sine[1] = 1000

\* the second block of 17 samples at 440 Hz has been computed
C22_Witness ==
    /\ ~osc.synced
    /\ osc.val = 0 /\ osc.size = 17
    /\ osc.blocks = 2
    /\ osc.n = 34

----------------------------------------------------------------------------
(* Specification SpecMoog: InternalMoogFilterState::calc fed sample after   *)
(* sample.  Values are fixed-point numbers in thousandths; products are    *)
(* truncated to thousandths.                                               *)

\* samples fed to one filter
MaxSamples == 4

\* 1.0 in thousandths
One == 1000

\* a value that is not a number
FNaN == 1000000000

\* input samples: full scale either way, and NaN
MoogInputs == {-One, One, FNaN}

\* (frequency, res) settings, within [0, 0.9] and [0, 1]
MoogSettings == {<<200, 500>>, <<900, One>>, <<0, 0>>}

FAdd(x, y) == IF x = FNaN \/ y = FNaN THEN FNaN ELSE x + y
FSub(x, y) == IF x = FNaN \/ y = FNaN THEN FNaN ELSE x - y
FMul(x, y) ==
    IF x = FNaN \/ y = FNaN THEN FNaN
    ELSE IF x * y >= 0 THEN (x * y) \div One ELSE -((-(x * y)) \div One)

\* f32::min and f32::max: when one operand is NaN the other is returned
fmin(x, y) == IF x = FNaN THEN y ELSE IF y = FNaN THEN x ELSE IF x < y THEN x ELSE y
fmax(x, y) == IF x = FNaN THEN y ELSE IF y = FNaN THEN x ELSE IF x > y THEN x ELSE y

\* variant of clamp_buffers that only bounds the values from above
clamp_buffers_UpperOnly(b) == [k \in DOMAIN b |-> fmin(b[k], One)]

\* clamp_buffers: x.min(1.0).max(-1.0) on every b[k]
clamp_buffers(b) == [k \in DOMAIN b |-> fmax(fmin(b[k], One), -One)]

\* InternalMoogFilterState::default; n counts the samples fed, clamped tells
\* that clamp_buffers changed a value, nan that it met a NaN
NewMoog ==
    [f |-> 0, p |-> 0, q |-> 0, b |-> [k \in 0..4 |-> 0], freq |-> 0, res |-> 0,
     lowpass |-> 0, n |-> 0, clamped |-> FALSE, nan |-> FALSE]

InitMoog ==
    /\ WorkspaceIdle
    /\ call = NoCall /\ hist = <<>> /\ td = NewDetector /\ smp = NewSample
    /\ sequencer = NoSequencer /\ bufs = NoBufs
    /\ vca = NotBuilt /\ osc = NotBuilt /\ abuf = NotBuilt
    /\ adsr = NotBuilt /\ rt = NotBuilt
    /\ moog = NewMoog

\* calc, first part: the coefficients are recomputed when frequency or res
\* differ from the ones cached
Coefficients(m, frequency, res) ==
    IF frequency # m.freq \/ res # m.res
    THEN LET q1 == One - frequency
             p == frequency + FMul(FMul(800, frequency), q1)
         IN [m EXCEPT !.freq = frequency, !.res = res,
                      !.p = p,
                      !.f = p * 2 - One,
                      !.q = FMul(res, One + FMul(FMul(500, q1),
                                                 One - q1 + FMul(FMul(5600, q1), q1)))]
    ELSE m

\* calc: one sample through the ladder
moog_calc(m0, sample, frequency, res) ==
    LET m == Coefficients(m0, frequency, res)
        input == FSub(sample, FMul(m.q, m.b[4]))
        b1 == FSub(FMul(FAdd(input, m.b[0]), m.p), FMul(m.b[1], m.f))
        b2 == FSub(FMul(FAdd(b1, m.b[1]), m.p), FMul(m.b[2], m.f))
        b3 == FSub(FMul(FAdd(b2, m.b[2]), m.p), FMul(m.b[3], m.f))
        b4 == FSub(FMul(FAdd(b3, m.b[3]), m.p), FMul(m.b[4], m.f))
        b4s == FSub(b4, FMul(FMul(FMul(b4, b4), b4), 167))
        raw == [k \in 0..4 |->
                  CASE k = 0 -> input [] k = 1 -> b1 [] k = 2 -> b2 [] k = 3 -> b3
                    [] OTHER -> b4s]
        b == clamp_buffers(raw)
    IN [m EXCEPT !.b = b, !.lowpass = b[4], !.n = @ + 1,
                 !.clamped = @ \/ b # raw,
                 !.nan = @ \/ \E k \in 0..4 : raw[k] = FNaN]

MoogSample ==
    /\ moog.n < MaxSamples
    /\ \E sample \in MoogInputs, set \in MoogSettings :
          moog' = moog_calc(moog, sample, set[1], set[2])
    /\ UNCHANGED <<wsvars, call, hist, td, smp, sequencer, bufs, vca, osc, abuf, adsr, rt>>

NextMoog == MoogSample

SpecMoog == InitMoog /\ [][NextMoog]_vars

\* what the recomputation step of calc yields for (frequency, res): the step
\* applied to a state whose cached setting differs
Recomputed(frequency, res) ==
    LET m == Coefficients([NewMoog EXCEPT !.freq = frequency + 1], frequency, res)
    IN <<m.f, m.p, m.q>>

\* C40: at every call of calc, after the change check the cached coefficients
\* (f, p, q) are the ones the recomputation step yields for the (frequency,
\* res) of the call, the first sample after construction with frequency = 0
\* and res = 0 included.
C40_CachedCoefficients ==
    moog.n > 0 => <<moog.f, moog.p, moog.q>> = Recomputed(moog.freq, moog.res)

\* C23: after every sample each of b[0..4] is a number in [-1, 1], and the
\* lowpass output is within [-2, 2].
C23_StateBounded ==
    /\ \A k \in 0..4 : moog.b[k] # FNaN /\ moog.b[k] >= -One /\ moog.b[k] <= One
    /\ moog.lowpass # FNaN /\ moog.lowpass >= -2 * One /\ moog.lowpass <= 2 * One

\* the ladder left [-1, 1] on numbers only and was clamped
C23_Witness ==
    /\ moog.n > 0
    /\ moog.clamped
    /\ ~moog.nan

----------------------------------------------------------------------------
(* Specification SpecBuf: the output AudioBuffer of one module (a VCA) and  *)
(* the handles get_output(0) returns for it.  An allocation is known by    *)
(* its number; heap holds the block stored in each allocation.             *)

\* allocations made for one module's buffer
MaxStorage == 3

\* buffer sizes the host may configure
BufSizes == {1, buffer_size}

\* AudioBuffer::new(Some(size)) as allocation a: zeros
Zeros(size) == [n \in 1..size |-> 0]

\* a module whose buf is allocation 1; handles are the allocations returned
\* by get_output since the last set_audio_config, written is the block the
\* module wrote last
NewBuf(size) ==
    [buf |-> 1, size |-> size, heap |-> [a \in 1..MaxStorage |-> IF a = 1 THEN Zeros(size) ELSE <<>>],
     handles |-> {}, written |-> Zeros(size), calcs |-> 0]

InitBuf ==
    /\ WorkspaceIdle
    /\ call = NoCall /\ hist = <<>> /\ td = NewDetector /\ smp = NewSample
    /\ sequencer = NoSequencer /\ bufs = NoBufs
    /\ vca = NotBuilt /\ osc = NotBuilt /\ moog = NotBuilt
    /\ adsr = NotBuilt /\ rt = NotBuilt
    /\ \E size \in BufSizes : abuf = NewBuf(size)

\* variant of with_write that stores the block in a fresh allocation
with_write_Realloc(m, block) ==
    [m EXCEPT !.buf = (m.buf % MaxStorage) + 1,
              !.heap[(m.buf % MaxStorage) + 1] = block,
              !.written = block,
              !.calcs = IF @ < 2 THEN @ + 1 ELSE @]

\* AudioBuffer::with_write as calc uses it: the block is written into the
\* allocation behind buf
with_write(m, block) ==
    [m EXCEPT !.heap[m.buf] = block,
              !.written = block,
              !.calcs = IF @ < 2 THEN @ + 1 ELSE @]

\* get_output(0): Ok(self.buf.clone()), a handle to the allocation of buf
BufGetOutput ==
    /\ abuf' = [abuf EXCEPT !.handles = @ \cup {abuf.buf}]
    /\ UNCHANGED <<wsvars, call, hist, td, smp, sequencer, bufs, vca, osc, moog, adsr, rt>>

\* calc writes some block
BufCalc ==
    /\ \E block \in [1..abuf.size -> {-5, 0, 5}] : abuf' = with_write(abuf, block)
    /\ UNCHANGED <<wsvars, call, hist, td, smp, sequencer, bufs, vca, osc, moog, adsr, rt>>

\* AudioBuffer::resize: a new length discards the old allocation
resize(m, size) ==
    IF size = m.size THEN [m EXCEPT !.handles = {}, !.calcs = 0]
    ELSE [m EXCEPT !.buf = @ + 1, !.size = size,
                   !.heap = [a \in 1..MaxStorage |-> IF a = m.buf + 1 THEN Zeros(size) ELSE <<>>],
                   !.handles = {}, !.written = Zeros(size), !.calcs = 0]

\* set_audio_config(cfg)
BufSetAudioConfig ==
    /\ abuf.buf < MaxStorage
    /\ \E size \in BufSizes : abuf' = resize(abuf, size)
    /\ UNCHANGED <<wsvars, call, hist, td, smp, sequencer, bufs, vca, osc, moog, adsr, rt>>

NextBuf == BufGetOutput \/ BufCalc \/ BufSetAudioConfig

SpecBuf == InitBuf /\ [][NextBuf]_vars

----------------------------------------------------------------------------
(* Specification SpecADSR: ADSRModule::calc, one sample at a time, with the *)
(* sliders and the gate wire changed between blocks.  Levels, phases and    *)
(* times are in thousandths.                                                *)

\* AudioConfig.sample_rate, scaled down from 48000
sample_rate == 3

\* 1.0 / 0.0
FInf == 999999999

\* slider positions of a_sec, d_sec and r_sec, within 0.0..=1.0
AdsrSecs == {0, 500}
\* slider positions of s_val
AdsrLevels == {0, 250}
\* samples of the gate input
AdsrGates == {0, 1, NaN}

\* 1.0 / (self.sample_rate * sec)
PhaseInc(sec) ==
    IF sample_rate * sec = 0 THEN FInf ELSE (One * One) \div (sample_rate * sec)

\* ADSRModule::new; prev_mode, low, high and rose describe the sample
\* processed last: the mode before it, whether its gate was unconnected or
\* <= 0, whether it was > 0, and what the transition detector answered
NewADSR ==
    [a_sec |-> 0, d_sec |-> 500, s_val |-> 250, r_sec |-> 500,
     phase |-> 0, mode |-> "None", r_val |-> 0, from_a_val |-> 0,
     gate_in |-> FALSE, transition_detector |-> TRUE, out |-> 0, idx |-> 0,
     prev_mode |-> "None", low |-> TRUE, high |-> FALSE, rose |-> FALSE]

InitADSR ==
    /\ WorkspaceIdle
    /\ call = NoCall /\ hist = <<>> /\ td = NewDetector /\ smp = NewSample
    /\ sequencer = NoSequencer /\ bufs = NoBufs
    /\ vca = NotBuilt /\ osc = NotBuilt /\ moog = NotBuilt /\ abuf = NotBuilt
    /\ rt = NotBuilt
    /\ adsr = NewADSR

\* gate_in_buf.is_some() && gate_in_buf.unwrap()[idx] > 0.0
GateHigh(m, gate) == m.gate_in /\ Gt(gate, 0)
\* gate_in_buf.is_none() || gate_in_buf.unwrap()[idx] <= 0.0
GateLow(m, gate) == ~m.gate_in \/ Le(gate, 0)

\* ADSRMode::None; retrigger is the answer of the transition detector
StepNone(m, gate, retrigger) ==
    IF GateHigh(m, gate) THEN [m EXCEPT !.phase = 0, !.mode = "Attack"] ELSE m

\* variant of StepAttack that goes straight to Sustain
StepAttack_SkipDecay(m, gate, retrigger) ==
    LET phase == m.phase + PhaseInc(m.a_sec)
    IN IF phase >= One THEN [m EXCEPT !.phase = 0, !.mode = "Sustain"]
       ELSE IF retrigger THEN [m EXCEPT !.phase = 0, !.r_val = m.from_a_val]
       ELSE [m EXCEPT !.phase = phase]

\* ADSRMode::Attack
StepAttack(m, gate, retrigger) ==
    LET phase == m.phase + PhaseInc(m.a_sec)
    IN IF phase >= One THEN [m EXCEPT !.phase = 0, !.mode = "Decay"]
       ELSE IF retrigger THEN [m EXCEPT !.phase = 0, !.r_val = m.from_a_val]
       ELSE [m EXCEPT !.phase = phase]

\* ADSRMode::Decay
StepDecay(m, gate, retrigger) ==
    LET phase == m.phase + PhaseInc(m.d_sec)
        m1 == IF phase >= One THEN [m EXCEPT !.phase = 0, !.mode = "Sustain"]
              ELSE [m EXCEPT !.phase = phase]
    IN IF retrigger THEN [m1 EXCEPT !.phase = 0, !.mode = "Attack"] ELSE m1

\* variant of StepSustain that releases from the phase it has
StepSustain_KeepPhase(m, gate, retrigger) ==
    LET m1 == IF GateLow(m, gate) THEN [m EXCEPT !.phase = 500, !.mode = "Release"] ELSE m
    IN IF retrigger THEN [m1 EXCEPT !.phase = 0, !.mode = "Attack"] ELSE m1

\* ADSRMode::Sustain
StepSustain(m, gate, retrigger) ==
    LET m1 == IF GateLow(m, gate) THEN [m EXCEPT !.phase = 0, !.mode = "Release"] ELSE m
    IN IF retrigger THEN [m1 EXCEPT !.phase = 0, !.mode = "Attack"] ELSE m1

\* variant of StepRelease whose phase does not advance
StepRelease_Stuck(m, gate, retrigger) ==
    LET m1 == IF GateHigh(m, gate) THEN [m EXCEPT !.phase = 0, !.mode = "Attack"] ELSE m
    IN IF m1.phase >= One THEN [m1 EXCEPT !.phase = 0, !.r_val = 0, !.mode = "None"] ELSE m1

\* ADSRMode::Release: the phase advances, and the release can end, also on
\* the sample that has just set the mode to Attack
StepRelease(m, gate, retrigger) ==
    LET m1 == IF GateHigh(m, gate) THEN [m EXCEPT !.phase = 0, !.mode = "Attack"] ELSE m
        phase == m1.phase + PhaseInc(m.r_sec)
    IN IF phase >= One THEN [m1 EXCEPT !.phase = 0, !.r_val = 0, !.mode = "None"]
       ELSE [m1 EXCEPT !.phase = phase]

\* output_buffer[idx] = match self.mode
Envelope(m) ==
    CASE m.mode = "None" -> 0
      [] m.mode = "Attack" -> FAdd(m.r_val, FMul(FSub(One, m.r_val), m.phase))
      [] m.mode = "Decay" -> FAdd(m.s_val, FMul(FSub(One, m.s_val), FSub(One, m.phase)))
      [] m.mode = "Sustain" -> m.s_val
      [] m.mode = "Release" -> FMul(m.s_val, FSub(One, m.phase))

\* calc, body of the loop over the block
adsr_calc(m, gate) ==
    LET t == is_transition([last |-> m.transition_detector], IF m.gate_in THEN gate ELSE 0)
        m1 == CASE m.mode = "None" -> StepNone(m, gate, t.ret)
                [] m.mode = "Attack" -> StepAttack(m, gate, t.ret)
                [] m.mode = "Decay" -> StepDecay(m, gate, t.ret)
                [] m.mode = "Sustain" -> StepSustain(m, gate, t.ret)
                [] m.mode = "Release" -> StepRelease(m, gate, t.ret)
        o == Envelope(m1)
    IN [m1 EXCEPT !.out = o,
                  !.r_val = IF m1.mode # "Attack" THEN o ELSE @,
                  !.from_a_val = IF m1.mode = "Attack" THEN o ELSE @,
                  !.transition_detector = t.last,
                  !.idx = (@ + 1) % buffer_size,
                  !.prev_mode = m.mode,
                  !.low = GateLow(m, gate),
                  !.high = GateHigh(m, gate),
                  !.rose = t.ret]

AdsrSample ==
    /\ \E gate \in AdsrGates : adsr' = adsr_calc(adsr, gate)
    /\ UNCHANGED <<wsvars, call, hist, td, smp, sequencer, bufs, vca, osc, moog, abuf, rt>>

\* ui: a slider is dragged, under the module lock that calc holds for a block
AdsrSlide ==
    /\ adsr.idx = 0
    /\ \/ \E v \in AdsrSecs : adsr' = [adsr EXCEPT !.a_sec = v]
       \/ \E v \in AdsrSecs : adsr' = [adsr EXCEPT !.d_sec = v]
       \/ \E v \in AdsrSecs : adsr' = [adsr EXCEPT !.r_sec = v]
       \/ \E v \in AdsrLevels : adsr' = [adsr EXCEPT !.s_val = v]
    /\ UNCHANGED <<wsvars, call, hist, td, smp, sequencer, bufs, vca, osc, moog, abuf, rt>>

\* set_input(0, ...) and disconnect_input(0) between blocks
AdsrWire ==
    /\ adsr.idx = 0
    /\ adsr' = [adsr EXCEPT !.gate_in = ~@]
    /\ UNCHANGED <<wsvars, call, hist, td, smp, sequencer, bufs, vca, osc, moog, abuf, rt>>

NextADSR == AdsrSample \/ AdsrSlide \/ AdsrWire

SpecADSR == InitADSR /\ [][NextADSR]_vars

\* calc runs once per block for as long as the stream plays
SpecADSRFair == SpecADSR /\ WF_vars(AdsrSample)

AdsrEdges ==
    {<<"None", "Attack">>, <<"Attack", "Decay">>, <<"Decay", "Sustain">>,
     <<"Decay", "Attack">>, <<"Sustain", "Release">>, <<"Sustain", "Attack">>,
     <<"Release", "Attack">>, <<"Release", "None">>}

\* C31: between consecutive samples the mode of the ADSR stays or changes
\* along None->Attack, Attack->Decay, Decay->Sustain, Decay->Attack,
\* Sustain->Release, Sustain->Attack, Release->Attack or Release->None; the
\* output is 0 whenever the mode is None.
C31_ModeEdges ==
    /\ adsr.prev_mode = adsr.mode \/ <<adsr.prev_mode, adsr.mode>> \in AdsrEdges
    /\ adsr.mode = "None" => adsr.out = 0

\* a retrigger during the decay has restarted the attack above 0
C31_Witness ==
    /\ adsr.prev_mode = "Decay"
    /\ adsr.mode = "Attack"
    /\ adsr.rose
    /\ adsr.out > 0

\* C32: a sample processed in Release whose gate is above 0 leaves the
\* envelope in Attack, whatever r_sec is.
C32_ReleaseRetriggers ==
    (adsr.prev_mode = "Release" /\ adsr.high) => adsr.mode = "Attack"

\* C33: a sample processed in Sustain whose gate is above 0 and is no new
\* rising edge outputs s_val and stays in Sustain; a sample whose gate is
\* <= 0, or whose gate input is unconnected, enters Release with phase 0.
C33_Sustain ==
    [][(adsr'.idx # adsr.idx /\ adsr.mode = "Sustain") =>
          /\ (adsr'.high /\ ~adsr'.rose) => (adsr'.mode = "Sustain" /\ adsr'.out = adsr.s_val)
          /\ adsr'.low => (adsr'.mode = "Release" /\ adsr'.phase = 0)]_vars

\* the gate fell during the sustain: the release starts from s_val
C33_Witness ==
    /\ adsr.prev_mode = "Sustain"
    /\ adsr.mode = "Release"
    /\ adsr.low
    /\ adsr.s_val > 0
    /\ adsr.out = adsr.s_val

\* C34: if from some sample on the gate stays <= 0 or unconnected, the ADSR
\* reaches mode None after finitely many samples and outputs 0 from then on.
C34_ReachesNone ==
    <>[]adsr.low => <>[](adsr.mode = "None" /\ adsr.out = 0)

\* a release that lasted more than one sample has ended with the gate low
C34_Witness ==
    /\ adsr.prev_mode = "Release"
    /\ adsr.mode = "None"
    /\ adsr.low
    /\ adsr.r_sec > 0
    /\ adsr.out = 0

----------------------------------------------------------------------------
(* Specification SpecPlay: SampleModule::calc with the cv input connected,  *)
(* against the same load task as SpecSample.  The cv sets the speed: pos    *)
(* advances by 2^cv per output sample, and a cv that is not a number makes  *)
(* pos not a number.                                                        *)

\* samples of the cv input: unity speed, one octave up, not a number
Cvs == {0, 1, NaN}

\* self.pos as usize: the cast of a NaN is 0
AsIndex(pos) == IF pos = FNaN THEN 0 ELSE pos

\* wavebox.sample_rate / self.sample_rate * 2.0_f32.powf(cv), at equal rates
Speed(cv) == IF cv = NaN THEN FNaN ELSE Pow2(cv)

\* variant of PlayStep without the test of pos against the length
PlayStep_NoRewind(m, gate, cv) ==
    LET t == is_transition([last |-> m.last], gate)
        pos1 == IF t.ret THEN 0 ELSE m.pos
        playing1 == IF t.ret THEN TRUE ELSE m.playing
        at == AsIndex(pos1)
    IN [m EXCEPT !.last = t.last,
                 !.out = IF at < Len(m.samples) THEN m.samples[at + 1] ELSE 0,
                 !.read = IF Len(m.samples) > 0 THEN at ELSE -1,
                 !.pos = IF playing1 THEN FAdd(pos1, Speed(cv)) ELSE pos1,
                 !.playing = playing1,
                 !.idx = @ + 1,
                 !.since = -1]

\* one iteration of the loop over the output block; read is the index at
\* which the sample buffer was read, -1 when it was not read
PlayStep(m, gate, cv) ==
    LET t == is_transition([last |-> m.last], gate)
        pos1 == IF t.ret THEN 0 ELSE m.pos
        playing1 == IF t.ret THEN TRUE ELSE m.playing
        over == AsIndex(pos1) >= Len(m.samples)
        pos2 == IF over THEN 0 ELSE pos1
        playing2 == IF over THEN FALSE ELSE playing1
        at == AsIndex(pos2)
    IN [m EXCEPT !.last = t.last,
                 !.out = IF at < Len(m.samples) THEN m.samples[at + 1] ELSE 0,
                 !.read = IF Len(m.samples) > 0 THEN at ELSE -1,
                 !.pos = IF playing2 THEN FAdd(pos2, Speed(cv)) ELSE pos2,
                 !.playing = playing2,
                 !.idx = @ + 1,
                 !.since = -1]

PlaySample ==
    /\ smp.pc = "block"
    /\ smp.idx < buffer_size
    /\ \E gate \in Gates, cv \in Cvs : smp' = PlayStep(smp, gate, cv)
    /\ UNCHANGED <<wsvars, call, hist, td, sequencer, bufs, dspvars>>

NextPlay == CalcBegin \/ PlaySample \/ CalcEnd \/ LoadLock \/ LoadEnd

SpecPlay == InitSample /\ [][NextPlay]_vars

\* C38: whatever loads, gates and cvs come, every sample that calc has
\* processed read the sample buffer at an index below its length, or not at
\* all when it is empty, and with an empty buffer playing is false.
C38_ReadsInRange ==
    (smp.pc = "block" /\ smp.idx > 0) =>
        /\ smp.read < Len(smp.samples)
        /\ smp.samples = <<>> => (smp.read = -1 /\ ~smp.playing /\ smp.out = 0)

\* a file was adopted and played, a failed load then emptied the buffer, and
\* a sample of a later block was processed: nothing is read, nothing plays
C38_Witness ==
    /\ smp.pc = "block" /\ smp.idx > 0
    /\ smp.adopted >= 1
    /\ smp.samples = <<>>
    /\ smp.read = -1
    /\ ~smp.playing

----------------------------------------------------------------------------
(* Specification SpecRt: the output callback that main hands to the device. *)
(* The device asks for buffers of any whole number of frames; the cursor    *)
(* src_buf_pos lives in the closure and survives from one callback to the   *)
(* next.                                                                    *)

\* frames followed from the start of the stream
MaxFrames == 8

\* frames of one device buffer
MaxCallbackFrames == 3

\* let mut src_buf_pos: usize = 0, before the stream is built; written counts
\* the samples handed to the device, executes the calls of execute
NewRt == [pc |-> "idle", src_buf_pos |-> 0, len |-> 0, dst_buf_pos |-> 0,
          written |-> 0, executes |-> 0]

InitRt ==
    /\ WorkspaceIdle
    /\ call = NoCall /\ hist = <<>> /\ td = NewDetector /\ smp = NewSample
    /\ sequencer = NoSequencer /\ bufs = NoBufs
    /\ vca = NotBuilt /\ osc = NotBuilt /\ moog = NotBuilt /\ abuf = NotBuilt
    /\ adsr = NotBuilt
    /\ rt = NewRt

\* the device calls the closure with data of a whole number of frames
CallbackBegin ==
    /\ rt.pc = "idle"
    /\ rt.written < MaxFrames * channels
    /\ \E frames \in 1..MaxCallbackFrames :
          rt' = [rt EXCEPT !.pc = "fill", !.len = frames * channels, !.dst_buf_pos = 0]
    /\ UNCHANGED <<wsvars, call, hist, td, smp, sequencer, bufs, vca, osc, moog, abuf, adsr>>

\* one iteration of for dst_buf_pos in 0..data.len(): the sample is written,
\* and after the last channel of a frame the cursor moves on; at the end of
\* the block the plan is executed and the cursor wraps
WriteSample ==
    /\ rt.pc = "fill"
    /\ rt.dst_buf_pos < rt.len
    /\ LET last_channel == rt.dst_buf_pos % channels = channels - 1
           moved == IF last_channel THEN rt.src_buf_pos + 1 ELSE rt.src_buf_pos
           wraps == last_channel /\ moved >= buffer_size
       IN rt' = [rt EXCEPT !.dst_buf_pos = @ + 1,
                           !.written = @ + 1,
                           !.executes = IF wraps THEN @ + 1 ELSE @,
                           !.src_buf_pos = IF wraps THEN 0 ELSE moved]
    /\ UNCHANGED <<wsvars, call, hist, td, smp, sequencer, bufs, vca, osc, moog, abuf, adsr>>

\* the closure returns
CallbackEnd ==
    /\ rt.pc = "fill"
    /\ rt.dst_buf_pos = rt.len
    /\ rt' = [rt EXCEPT !.pc = "idle", !.len = 0, !.dst_buf_pos = 0]
    /\ UNCHANGED <<wsvars, call, hist, td, smp, sequencer, bufs, vca, osc, moog, abuf, adsr>>

NextRt == CallbackBegin \/ WriteSample \/ CallbackEnd

SpecRt == InitRt /\ [][NextRt]_vars

\* C39: the sample cursor stays in [0, buffer_size), and the plan is executed
\* once for every block of buffer_size frames before the first frame of the
\* block is written: once a sample of the k-th block has been written,
\* execute has been called k times, however the frames are split over
\* callbacks.
C39_ExecutePerBlock ==
    /\ rt.src_buf_pos \in 0..(buffer_size - 1)
    /\ rt.written > 0 =>
          rt.executes = ((rt.written - 1) \div (channels * buffer_size)) + 1

====
